---- MODULE Spec2Model ----
(***************************************************************************)
(* A model of the parsing and enrichment pipeline of the danawa PC-parts   *)
(* crawler: src/parsers/cleaner.py, src/parsers/parser.py and              *)
(* src/parsers/mapping.py.                                                 *)
(*                                                                         *)
(* Representation of Python values                                         *)
(*   text (str)   a sequence of one-character strings, <<"6","5","W">>.    *)
(*                A Hangul syllable is one character, written in ASCII     *)
(*                with the prefix "k_" ("k_in" "k_tel" is the vendor token *)
(*                of _REMOVE_WORDS, "k_ko" "k_eo" the replacement of       *)
(*                "Core").                                                 *)
(*   dict         a function whose DOMAIN is the set of keys present.      *)
(*   list         a sequence.                                              *)
(*   Optional[int]  None is <<>>, the integer n is <<n>>.                  *)
(*   a value of a spec map   Str(text) or List(sequence of text), tagged   *)
(*                so that the empty list and the empty text differ.        *)
(*   a file       NoFile when it does not exist, otherwise its content.    *)
(***************************************************************************)
EXTENDS Integers, Sequences, FiniteSets, TLC

(***************************************************************************)
(* Text helpers: the Python str methods the program calls.                 *)
(***************************************************************************)
WS == {" ", "\t"}

None == <<>>
Some(n) == <<n>>

Str(s) == [t |-> "str", v |-> s]
List(l) == [t |-> "list", v |-> l]

\* a path that does not exist, and a file with its content
NoFile == [exists |-> FALSE, data |-> <<>>]
File(d) == [exists |-> TRUE, data |-> d]

\* s[i..j] as a sequence (empty when j < i)
Slice(s, i, j) == IF j < i THEN <<>> ELSE SubSeq(s, i, j)

\* p occurs in s starting at index i (1-based)
OccursAt(s, p, i) ==
    /\ i >= 1
    /\ i + Len(p) - 1 <= Len(s)
    /\ \A k \in 1..Len(p) : s[i + k - 1] = p[k]

\* str.find: the first index (1-based) where p occurs, 0 when it does not
Find(s, p) ==
    IF \E i \in 1..(Len(s) + 1) : OccursAt(s, p, i)
    THEN CHOOSE i \in 1..(Len(s) + 1) :
            /\ OccursAt(s, p, i)
            /\ \A j \in 1..(i - 1) : ~OccursAt(s, p, j)
    ELSE 0

\* str.rfind: the last index (1-based) where p occurs, 0 when it does not
RFind(s, p) ==
    IF \E i \in 1..(Len(s) + 1) : OccursAt(s, p, i)
    THEN CHOOSE i \in 1..(Len(s) + 1) :
            /\ OccursAt(s, p, i)
            /\ \A j \in (i + 1)..(Len(s) + 1) : ~OccursAt(s, p, j)
    ELSE 0

\* the `in` operator on str
Contains(s, p) == Find(s, p) # 0

\* str.endswith
EndsWith(s, p) == Len(p) <= Len(s) /\ OccursAt(s, p, Len(s) - Len(p) + 1)

\* str.replace(a, b) for a non-empty a: leftmost, non-overlapping
RECURSIVE Replace(_, _, _)
Replace(s, a, b) ==
    LET i == Find(s, a) IN
    IF Len(a) = 0 \/ i = 0 THEN s
    ELSE Slice(s, 1, i - 1) \o b \o Replace(Slice(s, i + Len(a), Len(s)), a, b)

\* str.strip()
RECURSIVE LStrip(_)
LStrip(s) == IF Len(s) > 0 /\ s[1] \in WS THEN LStrip(Tail(s)) ELSE s

RECURSIVE RStrip(_)
RStrip(s) ==
    IF Len(s) > 0 /\ s[Len(s)] \in WS THEN RStrip(Slice(s, 1, Len(s) - 1)) ELSE s

Strip(s) == RStrip(LStrip(s))

\* str.split(sep) for a non-empty sep: every piece, empty ones included
RECURSIVE SplitOn(_, _)
SplitOn(s, sep) ==
    LET i == Find(s, sep) IN
    IF i = 0 THEN <<s>>
    ELSE <<Slice(s, 1, i - 1)>> \o SplitOn(Slice(s, i + Len(sep), Len(s)), sep)

\* str.split(sep, 1): at most one split, at the first sep
SplitFirst(s, sep) ==
    LET i == Find(s, sep) IN
    IF i = 0 THEN <<s>>
    ELSE <<Slice(s, 1, i - 1), Slice(s, i + Len(sep), Len(s))>>

\* str.split(): maximal runs of non-whitespace characters
RECURSIVE SplitWs(_)
SplitWs(s) ==
    LET t == LStrip(s) IN
    IF Len(t) = 0 THEN <<>>
    ELSE LET n == IF \E i \in 1..Len(t) : t[i] \in WS
                  THEN (CHOOSE i \in 1..Len(t) :
                           t[i] \in WS /\ \A j \in 1..(i - 1) : t[j] \notin WS) - 1
                  ELSE Len(t)
         IN <<Slice(t, 1, n)>> \o SplitWs(Slice(t, n + 1, Len(t)))

\* sep.join(parts)
RECURSIVE Join(_, _)
Join(parts, sep) ==
    IF Len(parts) = 0 THEN <<>>
    ELSE IF Len(parts) = 1 THEN parts[1]
    ELSE parts[1] \o sep \o Join(Tail(parts), sep)

\* every character of s removed that is whitespace: re.sub(r"\s+", "", s)
RECURSIVE DropWs(_)
DropWs(s) ==
    IF Len(s) = 0 THEN <<>>
    ELSE IF s[1] \in WS THEN DropWs(Tail(s)) ELSE <<s[1]>> \o DropWs(Tail(s))

\* dict.update / {**a, **b}: the keys of b win
Update(a, b) == [k \in (DOMAIN a) \cup (DOMAIN b) |-> IF k \in DOMAIN b THEN b[k] ELSE a[k]]

EmptyDict == [k \in {} |-> <<>>]

(***************************************************************************)
(* Numbers in text: pandas.to_numeric(errors="coerce") and str(int).       *)
(***************************************************************************)
DigitChars == <<"0", "1", "2", "3", "4", "5", "6", "7", "8", "9">>

IsDigit(c) == \E i \in 1..10 : DigitChars[i] = c

DigitVal(c) == (CHOOSE i \in 1..10 : DigitChars[i] = c) - 1

IsDigits(s) == Len(s) > 0 /\ \A i \in 1..Len(s) : IsDigit(s[i])

RECURSIVE DigitsVal(_)
DigitsVal(s) ==
    IF Len(s) = 0 THEN 0
    ELSE 10 * DigitsVal(Slice(s, 1, Len(s) - 1)) + DigitVal(s[Len(s)])

\* the unsigned part of a numeric literal: digits, or digits "." digits
IsUnsignedNumber(s) ==
    LET d == Find(s, <<".">>) IN
    IF d = 0 THEN IsDigits(s)
    ELSE IsDigits(Slice(s, 1, d - 1)) /\ IsDigits(Slice(s, d + 1, Len(s)))

\* to_numeric parses the text: an optional sign, digits, an optional fraction
IsNumber(s) ==
    IF Len(s) > 0 /\ s[1] = "-" THEN IsUnsignedNumber(Tail(s)) ELSE IsUnsignedNumber(s)

\* .astype(int) of the parsed number: the fraction is cut off, toward zero
TruncVal(s) ==
    LET neg == Len(s) > 0 /\ s[1] = "-"
        u   == IF neg THEN Tail(s) ELSE s
        d   == Find(u, <<".">>)
        ip  == IF d = 0 THEN u ELSE Slice(u, 1, d - 1)
    IN IF neg THEN 0 - DigitsVal(ip) ELSE DigitsVal(ip)

\* str(n) for an integer n
RECURSIVE NatToStr(_)
NatToStr(n) ==
    IF n < 10 THEN <<DigitChars[n + 1]>>
    ELSE NatToStr(n \div 10) \o <<DigitChars[(n % 10) + 1]>>

IntToStr(n) == IF n < 0 THEN <<"-">> \o NatToStr(0 - n) ELSE NatToStr(n)

\* str.lower() on the ASCII letters (other characters have no case)
UpperChars == <<"A", "B", "C", "D", "E", "F", "G", "H", "I", "J", "K", "L", "M",
                "N", "O", "P", "Q", "R", "S", "T", "U", "V", "W", "X", "Y", "Z">>
LowerChars == <<"a", "b", "c", "d", "e", "f", "g", "h", "i", "j", "k", "l", "m",
                "n", "o", "p", "q", "r", "s", "t", "u", "v", "w", "x", "y", "z">>

LowerChar(c) ==
    IF \E i \in 1..Len(UpperChars) : UpperChars[i] = c
    THEN LowerChars[CHOOSE i \in 1..Len(UpperChars) : UpperChars[i] = c]
    ELSE c

Lower(s) == [i \in 1..Len(s) |-> LowerChar(s[i])]

(***************************************************************************)
(* mapping.py: constants                                                   *)
(***************************************************************************)
PARTS == <<"CPU", "Cooler", "Motherboard", "Memory", "VGA", "SSD", "HDD", "Case", "PSU">>

\* feed column header -> metric key written into spec
CPU_BENCH_COL_MAP ==
    [cb_r23_single_col |-> "cinebench_r23_single",
     cb_r23_multi_col  |-> "cinebench_r23_multi",
     gb6_single_col    |-> "geekbench6_single",
     gb6_multi_col     |-> "geekbench6_multi",
     blender_cpu_col   |-> "blender_cpu"]

GPU_BENCH_COL_MAP ==
    [steel_nomad_col   |-> "3d_mark",
     gb6_compute_col   |-> "geekbench6_opencl",
     blender_gpu_col   |-> "blender_gpu",
     fps_1080p_high_col  |-> "average_fps_by_1080p_high",
     fps_1080p_ultra_col |-> "average_fps_by_1080p_ultra",
     fps_1440p_ultra_col |-> "average_fps_by_1440p_ultra",
     fps_4k_ultra_col    |-> "average_fps_by_4k_high"]

CpuMetricKeys == {CPU_BENCH_COL_MAP[c] : c \in DOMAIN CPU_BENCH_COL_MAP}
GpuMetricKeys == {GPU_BENCH_COL_MAP[c] : c \in DOMAIN GPU_BENCH_COL_MAP}

\* "AMD", the vendor token "k_in k_tel", the series token "k_si k_ri k_jeu 2"
REMOVE_WORDS == << <<"A", "M", "D">>, <<"k_in", "k_tel">>, <<"k_si", "k_ri", "k_jeu", "2">> >>

\* Core -> "k_ko k_eo", Ryzen -> "k_ra k_i k_jen", Ultra -> "k_ul k_teu k_ra", in this order
REPLACE_MAP ==
    << << <<"C", "o", "r", "e">>,      <<"k_ko", "k_eo">> >>,
       << <<"R", "y", "z", "e", "n">>, <<"k_ra", "k_i", "k_jen">> >>,
       << <<"U", "l", "t", "r", "a">>, <<"k_ul", "k_teu", "k_ra">> >> >>

(***************************************************************************)
(* mapping.py: price / stock helpers                                       *)
(***************************************************************************)
\* df.dropna(subset=["Price"]) after to_numeric(errors="coerce"): the rows kept
PriceRowKept(row) == IsNumber(row.Price)

\* _load_price_map: id -> price of the rows whose price parses; for an id that
\* occurs more than once to_dict keeps the last row
LoadPriceMap(csv) ==
    IF ~csv.exists THEN EmptyDict
    ELSE LET rows == csv.data
             kept == {i \in 1..Len(rows) : PriceRowKept(rows[i])}
             ids  == {rows[i].ID : i \in kept}
             last(id) == CHOOSE i \in kept :
                            /\ rows[i].ID = id
                            /\ \A j \in kept : rows[j].ID = id => j <= i
         IN [id \in ids |-> TruncVal(rows[last(id)].Price)]

\* a variant that takes the truth value of the price for the stock flag:
\* bool(price_map.get(pid)) instead of pid in price_map
UpdateOnePriceStock_Truthy(p, price_map) ==
    LET pid == p.id IN
    Update(p, [price    |-> IF pid \in DOMAIN price_map THEN Some(price_map[pid]) ELSE None,
               in_stock |-> pid \in DOMAIN price_map /\ price_map[pid] # 0])

\* one iteration of the loop of _update_price_stock
UpdateOnePriceStock(p, price_map) ==
    LET pid == p.id IN
    Update(p, [price    |-> IF pid \in DOMAIN price_map THEN Some(price_map[pid]) ELSE None,
               in_stock |-> pid \in DOMAIN price_map])

\* a variant that keeps only the records found in the price map
UpdatePriceStock_InStockOnly(products, price_map) ==
    LET all == [i \in 1..Len(products) |-> UpdateOnePriceStock(products[i], price_map)]
    IN SelectSeq(all, LAMBDA q : q.in_stock)

\* _update_price_stock
UpdatePriceStock(products, price_map) ==
    [i \in 1..Len(products) |-> UpdateOnePriceStock(products[i], price_map)]

(***************************************************************************)
(* mapping.py: benchmark helpers                                           *)
(***************************************************************************)
\* re.sub("AMD|...", "", s): scanning left to right, the first alternative that
\* matches at a position is removed
RECURSIVE RemoveWords(_)
RemoveWords(s) ==
    IF Len(s) = 0 THEN <<>>
    ELSE IF \E w \in 1..Len(REMOVE_WORDS) : OccursAt(s, REMOVE_WORDS[w], 1)
    THEN LET w == CHOOSE w \in 1..Len(REMOVE_WORDS) :
                     /\ OccursAt(s, REMOVE_WORDS[w], 1)
                     /\ \A v \in 1..(w - 1) : ~OccursAt(s, REMOVE_WORDS[v], 1)
         IN RemoveWords(Slice(s, Len(REMOVE_WORDS[w]) + 1, Len(s)))
    ELSE <<s[1]>> \o RemoveWords(Tail(s))

RECURSIVE ReplaceWords(_, _)
ReplaceWords(s, n) ==
    IF n > Len(REPLACE_MAP) THEN s
    ELSE ReplaceWords(Replace(s, REPLACE_MAP[n][1], REPLACE_MAP[n][2]), n + 1)

\* _norm_series on one name
NormName(name) == DropWs(ReplaceWords(RemoveWords(name), 1))

\* pd.to_numeric(errors="coerce").fillna(0).astype(int) on one cell
CoerceMetric(cell) == IF IsNumber(cell) THEN TruncVal(cell) ELSE 0

\* _ensure_cols and the column selection: the cell of a column, 0 when the feed lacks it
CellOf(row, col) == IF col \in DOMAIN row.cells THEN row.cells[col] ELSE <<"0">>

\* the scores of one CPU feed row, keyed by metric key
CpuScores(row) ==
    [k \in CpuMetricKeys |->
        CoerceMetric(CellOf(row, CHOOSE c \in DOMAIN CPU_BENCH_COL_MAP : CPU_BENCH_COL_MAP[c] = k))]

\* the scores of one GPU feed row: "-" is replaced by 0 before the coercion
GpuScores(row) ==
    [k \in GpuMetricKeys |->
        LET cell == CellOf(row, CHOOSE c \in DOMAIN GPU_BENCH_COL_MAP : GPU_BENCH_COL_MAP[c] = k)
        IN IF cell = <<"-">> THEN 0 ELSE CoerceMetric(cell)]

\* DataFrame.to_dict("index") raises ValueError when the index is not unique
IndexUnique(keys) == \A i, j \in 1..Len(keys) : keys[i] = keys[j] => i = j

\* _load_cpu_bench_map: normalized name -> scores; ok = FALSE when it raises
LoadCpuBenchMap(csv) ==
    IF ~csv.exists THEN [ok |-> TRUE, map |-> EmptyDict]
    ELSE LET rows == csv.data
             keys == [i \in 1..Len(rows) |-> NormName(rows[i].name)]
         IN IF ~IndexUnique(keys) THEN [ok |-> FALSE, map |-> EmptyDict]
            ELSE [ok |-> TRUE,
                  map |-> [n \in {keys[i] : i \in 1..Len(rows)} |->
                              CpuScores(rows[CHOOSE i \in 1..Len(rows) : keys[i] = n])]]

\* _load_gpu_bench_map: the dict keeps the feed order, so it is a sequence of
\* (name, scores); ok = FALSE when it raises
LoadGpuBenchMap(csv) ==
    IF ~csv.exists THEN [ok |-> TRUE, map |-> <<>>]
    ELSE LET rows == csv.data
             keys == [i \in 1..Len(rows) |-> rows[i].name]
         IN IF ~IndexUnique(keys) THEN [ok |-> FALSE, map |-> <<>>]
            ELSE [ok |-> TRUE,
                  map |-> [i \in 1..Len(rows) |-> [name |-> rows[i].name, scores |-> GpuScores(rows[i])]]]

\* prod.setdefault("spec", {})
SpecOf(prod) == IF "spec" \in DOMAIN prod THEN prod.spec ELSE EmptyDict

\* a variant without the `if v` filter
NonZeroScores_NoFilter(scores) ==
    [k \in DOMAIN scores |-> Str(IntToStr(scores[k]))]

\* {k: str(v) for k, v in scores.items() if v}
NonZeroScores(scores) ==
    [k \in {m \in DOMAIN scores : scores[m] # 0} |-> Str(IntToStr(scores[k]))]

\* prod.get("name", "")
NameOf(prod) == IF "name" \in DOMAIN prod THEN prod.name.v ELSE <<>>

\* a variant that looks the record up by its name with the whitespace removed
\* and no word removed or replaced
AttachCpuOne_RawName(prod, bench_map) ==
    LET norm == DropWs(NameOf(prod)) IN
    IF norm \in DOMAIN bench_map
    THEN Update(prod, [spec |-> Update(SpecOf(prod), NonZeroScores(bench_map[norm]))])
    ELSE prod

\* one iteration of the loop of _attach_cpu_benchmarks
AttachCpuOne(prod, bench_map) ==
    LET norm == NormName(NameOf(prod)) IN
    IF norm \in DOMAIN bench_map
    THEN Update(prod, [spec |-> Update(SpecOf(prod), NonZeroScores(bench_map[norm]))])
    ELSE prod

\* _attach_cpu_benchmarks
AttachCpuBenchmarks(products, bench_map) ==
    [i \in 1..Len(products) |-> AttachCpuOne(products[i], bench_map)]

\* the test of one feed row against a record's (chipset, memory_capacity)
GpuRowMatches(bench_name, chipset, memcap) ==
    LET tokens == SplitWs(Replace(Replace(bench_name, <<"(">>, <<>>), <<")">>, <<>>)) IN
    IF Contains(bench_name, <<"G", "B">>)
    THEN /\ Lower(Join(Slice(tokens, 1, Len(tokens) - 1), <<" ">>)) = chipset
         /\ tokens[Len(tokens)] = memcap
    ELSE Lower(bench_name) = chipset

\* spec.get(key, "").strip() raises AttributeError when the value is a list
StripRaises(spec, key) == key \in DOMAIN spec /\ spec[key].t # "str"

SpecText(spec, key) == IF key \in DOMAIN spec THEN spec[key].v ELSE <<>>

\* a variant without the break: every matching row updates the spec in turn, so
\* a later matching row overwrites the metrics of the first
AttachGpuOne_NoBreak(prod, bench_map) ==
    LET spec == SpecOf(prod) IN
    IF StripRaises(spec, "chipset") \/ StripRaises(spec, "memory_capacity")
    THEN [ok |-> FALSE, prod |-> prod]
    ELSE LET chipset == Lower(Strip(SpecText(spec, "chipset")))
             memcap  == Strip(SpecText(spec, "memory_capacity"))
             F[n \in 0..Len(bench_map)] ==
                 IF n = 0 THEN spec
                 ELSE IF GpuRowMatches(bench_map[n].name, chipset, memcap)
                      THEN Update(F[n - 1], NonZeroScores(bench_map[n].scores))
                      ELSE F[n - 1]
         IN [ok |-> TRUE, prod |-> Update(prod, [spec |-> F[Len(bench_map)]])]

\* one iteration of the outer loop of _attach_gpu_benchmarks; ok = FALSE when it raises
AttachGpuOne(prod, bench_map) ==
    LET spec == SpecOf(prod) IN
    IF StripRaises(spec, "chipset") \/ StripRaises(spec, "memory_capacity")
    THEN [ok |-> FALSE, prod |-> prod]
    ELSE LET chipset == Lower(Strip(SpecText(spec, "chipset")))
             memcap  == Strip(SpecText(spec, "memory_capacity"))
             hits    == {i \in 1..Len(bench_map) :
                            GpuRowMatches(bench_map[i].name, chipset, memcap)}
         IN IF hits = {}
            THEN [ok |-> TRUE, prod |-> Update(prod, [spec |-> spec])]
            ELSE LET first == CHOOSE i \in hits : \A j \in hits : i <= j
                 IN [ok |-> TRUE,
                     prod |-> Update(prod, [spec |-> Update(spec, NonZeroScores(bench_map[first].scores))])]

\* _attach_gpu_benchmarks: the products after the loop, or ok = FALSE when an
\* iteration raises
AttachGpuBenchmarks(products, bench_map) ==
    LET each == [i \in 1..Len(products) |-> AttachGpuOne(products[i], bench_map)] IN
    [ok |-> \A i \in 1..Len(products) : each[i].ok,
     products |-> [i \in 1..Len(products) |-> each[i].prod]]

(***************************************************************************)
(* mapping.py: storage consolidator                                        *)
(***************************************************************************)
\* a variant that keeps a category the record already holds:
\* prod["spec"].setdefault("category", cat)
TagCategory_KeepOld(prod, cat) ==
    Update(prod, [spec |-> Update([category |-> Str(cat)], SpecOf(prod))])

\* prod.setdefault("spec", {})["category"] = cat
TagCategory(prod, cat) ==
    Update(prod, [spec |-> Update(SpecOf(prod), [category |-> Str(cat)])])

\* _load_and_tag
LoadAndTag(file, cat) ==
    IF ~file.exists THEN <<>>
    ELSE [i \in 1..Len(file.data) |-> TagCategory(file.data[i], cat)]

\* the name of the sibling as text
CatSSD == <<"S", "S", "D">>
CatHDD == <<"H", "D", "D">>

(***************************************************************************)
(* Regular expressions (module re).  A pattern is a sequence of elements;  *)
(* an element matches characters of the class cls: exactly one (lo = 1,    *)
(* many = FALSE), at most one (lo = 0, many = FALSE), one or more          *)
(* (lo = 1, many = TRUE) or any number (lo = 0, many = TRUE), greedily and *)
(* with backtracking.  grp is the capture group the element lies in, 0     *)
(* for none.  "코어i(\d+)F" is Lit k_ko, Lit k_eo, Lit i, Plus digits in   *)
(* group 1, Lit F.                                                         *)
(***************************************************************************)
Lit(c, g) == [cls |-> {c}, lo |-> 1, many |-> FALSE, grp |-> g]
One(cls, g) == [cls |-> cls, lo |-> 1, many |-> FALSE, grp |-> g]
Plus(cls, g) == [cls |-> cls, lo |-> 1, many |-> TRUE, grp |-> g]
Star(cls, g) == [cls |-> cls, lo |-> 0, many |-> TRUE, grp |-> g]

Digits == {DigitChars[i] : i \in 1..10}

\* the number of characters of cls in s from position pos on
RECURSIVE RunLen(_, _, _)
RunLen(s, pos, cls) ==
    IF pos <= Len(s) /\ s[pos] \in cls THEN 1 + RunLen(s, pos + 1, cls) ELSE 0

\* the lengths element e may take at pos
ElemLens(e, s, pos) ==
    LET run == RunLen(s, pos, e.cls) IN
    e.lo..(IF e.many THEN run ELSE IF run > 0 THEN 1 ELSE 0)

\* the elements k.. of re match s from pos
RECURSIVE CanMatch(_, _, _, _)
CanMatch(re, s, pos, k) ==
    IF k > Len(re) THEN TRUE
    ELSE \E n \in ElemLens(re[k], s, pos) : CanMatch(re, s, pos + n, k + 1)

\* the lengths the elements k.. take: each the longest that lets the rest match
RECURSIVE GreedyLens(_, _, _, _)
GreedyLens(re, s, pos, k) ==
    IF k > Len(re) THEN <<>>
    ELSE LET ok == {n \in ElemLens(re[k], s, pos) : CanMatch(re, s, pos + n, k + 1)}
             n  == CHOOSE m \in ok : \A o \in ok : o <= m
         IN <<n>> \o GreedyLens(re, s, pos + n, k + 1)

RECURSIVE SumSeq(_)
SumSeq(q) == IF Len(q) = 0 THEN 0 ELSE q[1] + SumSeq(Tail(q))

\* re.search from position from on: the leftmost match
SearchFrom(re, s, from) ==
    IF \E p \in from..(Len(s) + 1) : CanMatch(re, s, p, 1)
    THEN LET p == CHOOSE q \in from..(Len(s) + 1) :
                     /\ CanMatch(re, s, q, 1)
                     /\ \A r \in from..(q - 1) : ~CanMatch(re, s, r, 1)
         IN [found |-> TRUE, start |-> p, lens |-> GreedyLens(re, s, p, 1)]
    ELSE [found |-> FALSE, start |-> 0, lens |-> <<>>]

\* re.search(re, s)
ReSearch(re, s) == SearchFrom(re, s, 1)

\* the number of capture groups of the pattern
NGroups(re) ==
    IF Len(re) = 0 THEN 0
    ELSE LET gs == {re[k].grp : k \in 1..Len(re)} IN CHOOSE g \in gs : \A h \in gs : h <= g

\* the text of element k of the match m
ElemText(s, m, k) ==
    LET before == SumSeq(Slice(m.lens, 1, k - 1)) IN
    Slice(s, m.start + before, m.start + before + m.lens[k] - 1)

\* m.group(g): the whole match for g = 0, else the text of the elements of group g
RECURSIVE GroupFrom(_, _, _, _, _)
GroupFrom(re, s, m, g, k) ==
    IF k > Len(re) THEN <<>>
    ELSE (IF g = 0 \/ re[k].grp = g THEN ElemText(s, m, k) ELSE <<>>)
         \o GroupFrom(re, s, m, g, k + 1)

Group(re, s, m, g) == GroupFrom(re, s, m, g, 1)

\* m.group(g) raises IndexError for a group the pattern does not have
GroupRaises(re, g) == g > NGroups(re)

\* one item of re.findall: the match, its group, or the tuple of its groups
FindAllItem(re, s, m) ==
    IF NGroups(re) = 0 THEN Group(re, s, m, 0)
    ELSE IF NGroups(re) = 1 THEN Group(re, s, m, 1)
    ELSE [g \in 1..NGroups(re) |-> Group(re, s, m, g)]

\* re.findall(re, s) for a pattern that matches no empty text
RECURSIVE FindAllFrom(_, _, _)
FindAllFrom(re, s, from) ==
    LET m == SearchFrom(re, s, from) IN
    IF ~m.found \/ SumSeq(m.lens) = 0 THEN <<>>
    ELSE <<FindAllItem(re, s, m)>> \o FindAllFrom(re, s, m.start + SumSeq(m.lens))

FindAll(re, s) == FindAllFrom(re, s, 1)

(***************************************************************************)
(* parser.py: GenericParser                                                *)
(***************************************************************************)
TOP_LEVEL_FIELDS == {"id", "name", "image_url", "price", "in_stock", "product_url"}

\* parts, the list of the main block
parts == <<"CPU", "Cooler", "Motherboard", "Memory", "VGA", "SSD", "HDD", "Case", "PSU">>

\* the table repl of _preprocess, in its order; the last entry is
\* "k_sing k_geul / k_da k_jung" (single/multi) -> the same with a comma
PREPROCESS_REPL ==
    << << <<"A", "/", "S">>, <<"A", "S">> >>,
       << <<"S", "/", "W">>, <<"S", "W">> >>,
       << <<"G", "b", "/", "s">>, <<"G", "b", "s">> >>,
       << <<"M", "B", "/", "s">>, <<"M", "b", "s">> >>,
       << <<"k_sing", "k_geul", "/", "k_da", "k_jung">>, <<"k_sing", "k_geul", ",", "k_da", "k_jung">> >> >>

\* "k_yu k_hyu / k_tam k_saek" (idle/seek), "k_so k_eum (" (noise), "dB"
NOISE_RANGE == <<"k_yu", "k_hyu", "/", "k_tam", "k_saek">>
NOISE_MARK == <<"k_so", "k_eum", "(">>
DECIBEL == <<"d", "B">>

\* "k_sun k_cha k_ilg k_gi" (sequential read) and the four tags that lose their colon
SEQ_READ == <<"k_sun", "k_cha", "k_ilg", "k_gi">>
SEQ_TAGS ==
    << <<"k_sun", "k_cha", "k_ilg", "k_gi", ":">>,
       <<"k_sun", "k_cha", "k_sseu", "k_gi", ":">>,
       <<"k_ilg", "k_gi", "I", "O", "P", "S", ":">>,
       <<"k_sseu", "k_gi", "I", "O", "P", "S", ":">> >>

\* txt[a:b] with 0-based bounds a, b >= 0
PySlice(txt, a, b) == Slice(txt, a + 1, IF b < Len(txt) THEN b ELSE Len(txt))

RECURSIVE ReplaceTable(_, _, _)
ReplaceTable(txt, table, n) ==
    IF n > Len(table) THEN txt
    ELSE ReplaceTable(Replace(txt, table[n][1], table[n][2]), table, n + 1)

\* lines 108-110: s = txt.find(mark), e = txt.rfind("dB") + 2, both 0-based;
\* find and rfind give -1 when the text is absent
NoiseSpan(txt) ==
    IF Contains(txt, NOISE_RANGE) /\ Contains(txt, NOISE_MARK)
    THEN LET s0 == Find(txt, NOISE_MARK) - 1
             e0 == (RFind(txt, DECIBEL) - 1) + 2
         IN PySlice(txt, 0, s0) \o Replace(PySlice(txt, s0, e0), <<"/">>, <<",">>)
                \o PySlice(txt, e0, Len(txt))
    ELSE txt

RECURSIVE DropTagColons(_, _)
DropTagColons(txt, n) ==
    IF n > Len(SEQ_TAGS) THEN txt
    ELSE DropTagColons(
            Replace(txt, SEQ_TAGS[n], Slice(SEQ_TAGS[n], 1, Len(SEQ_TAGS[n]) - 1)), n + 1)

\* _preprocess
Preprocess(txt) ==
    LET t1 == ReplaceTable(txt, PREPROCESS_REPL, 1)
        t2 == NoiseSpan(t1)
    IN IF Contains(t2, SEQ_READ) THEN DropTagColons(t2, 1) ELSE t2

\* re.split(r"\[[^]]*]", spec): the pieces between the bracketed annotations
RECURSIVE SplitBrackets(_)
SplitBrackets(spec) ==
    LET i == Find(spec, <<"[">>)
        j == IF i = 0 THEN 0 ELSE Find(Slice(spec, i + 1, Len(spec)), <<"]">>)
    IN IF i = 0 \/ j = 0 THEN <<spec>>
       ELSE <<Slice(spec, 1, i - 1)>> \o SplitBrackets(Slice(spec, i + j + 1, Len(spec)))

\* the stripped pieces that are not empty, in order
RECURSIVE StripNonEmpty(_)
StripNonEmpty(pieces) ==
    IF Len(pieces) = 0 THEN <<>>
    ELSE (IF Len(Strip(pieces[1])) > 0 THEN <<Strip(pieces[1])>> ELSE <<>>)
         \o StripNonEmpty(Tail(pieces))

\* a variant that splits on "/" first and drops the annotations of each piece
SplitSegments_SlashFirst(spec) ==
    LET pieces == SplitOn(spec, <<"/">>) IN
    StripNonEmpty([n \in 1..Len(pieces) |-> Join(SplitBrackets(pieces[n]), <<" ">>)])

\* _split_segments
SplitSegments(spec) ==
    StripNonEmpty(SplitOn(Join(SplitBrackets(spec), <<" ">>), <<"/">>))

\* [v.strip() for v in v_raw.split(",")] if "," in v_raw else v_raw.strip()
ColonValue(v_raw) ==
    IF Contains(v_raw, <<",">>)
    THEN List([n \in 1..Len(SplitOn(v_raw, <<",">>)) |-> Strip(SplitOn(v_raw, <<",">>)[n])])
    ELSE Str(Strip(v_raw))

\* the last index (1-based) of character c in s, 0 when it is absent
LastIndexOf(s, c) == RFind(s, <<c>>)

\* a variant that splits at the last colon: seg.rsplit(":", 1)
ApplyColon_LastColon(res, seg, colon_cfg) ==
    LET i     == LastIndexOf(seg, ":")
        k_raw == Strip(Slice(seg, 1, i - 1))
        v_raw == Strip(Slice(seg, i + 1, Len(seg)))
    IN IF k_raw \in DOMAIN colon_cfg
       THEN Update(res, colon_cfg[k_raw] :> ColonValue(v_raw))
       ELSE res

\* lines 126-129 for one colon-style segment
ApplyColon(res, seg, colon_cfg) ==
    LET kv    == SplitFirst(seg, <<":">>)
        k_raw == Strip(kv[1])
        v_raw == Strip(kv[2])
    IN IF k_raw \in DOMAIN colon_cfg
       THEN Update(res, colon_cfg[k_raw] :> ColonValue(v_raw))
       ELSE res

\* _matches
Matches(seg, pat) ==
    \/ "contains" \in DOMAIN pat /\ Contains(seg, pat["contains"])
    \/ "contains_any" \in DOMAIN pat
          /\ \E c \in 1..Len(pat["contains_any"]) : Contains(seg, pat["contains_any"][c])
    \/ "endswith" \in DOMAIN pat /\ EndsWith(seg, pat["endswith"])
    \/ "regex" \in DOMAIN pat /\ ReSearch(pat["regex"], seg).found

\* a variant whose groups mode writes a list also for a single index
ApplyPat_GroupsAlwaysList(res, seg, pat) ==
    LET key == pat["key"] IN
    IF "extract_all" \in DOMAIN pat
    THEN Update(res, key :> List(FindAll(pat["extract_all"], seg)))
    ELSE IF "extract" \in DOMAIN pat /\ ReSearch(pat["extract"], seg).found
    THEN Update(res, key :> Str(Group(pat["extract"], seg, ReSearch(pat["extract"], seg), 1)))
    ELSE IF "groups" \in DOMAIN pat /\ ReSearch(pat["regex"], seg).found
    THEN LET gs == pat["groups"]
             m  == ReSearch(pat["regex"], seg)
         IN Update(res, key :> List([n \in 1..Len(gs) |-> Group(pat["regex"], seg, m, gs[n])]))
    ELSE IF "split_on" \in DOMAIN pat
    THEN Update(res, key :> List([n \in 1..Len(SplitOn(seg, pat["split_on"])) |->
                                     Strip(SplitOn(seg, pat["split_on"])[n])]))
    ELSE Update(res, key :> Str(seg))

\* _apply_pat
ApplyPat(res, seg, pat) ==
    LET key == pat["key"] IN
    IF "extract_all" \in DOMAIN pat
    THEN Update(res, key :> List(FindAll(pat["extract_all"], seg)))
    ELSE IF "extract" \in DOMAIN pat /\ ReSearch(pat["extract"], seg).found
    THEN Update(res, key :> Str(Group(pat["extract"], seg, ReSearch(pat["extract"], seg), 1)))
    ELSE IF "groups" \in DOMAIN pat /\ ReSearch(pat["regex"], seg).found
    THEN LET gs == pat["groups"]
             m  == ReSearch(pat["regex"], seg)
         IN Update(res, key :> IF Len(gs) = 1
                               THEN Str(Group(pat["regex"], seg, m, gs[1]))
                               ELSE List([n \in 1..Len(gs) |-> Group(pat["regex"], seg, m, gs[n])]))
    ELSE IF "split_on" \in DOMAIN pat
    THEN Update(res, key :> List([n \in 1..Len(SplitOn(seg, pat["split_on"])) |->
                                     Strip(SplitOn(seg, pat["split_on"])[n])]))
    ELSE Update(res, key :> Str(seg))

\* a variant that stops at the first pattern that matches (a break after _apply_pat)
RECURSIVE ApplyPats_FirstMatch(_, _, _, _)
ApplyPats_FirstMatch(res, seg, pats, k) ==
    IF k > Len(pats) THEN res
    ELSE IF Matches(seg, pats[k]) THEN ApplyPat(res, seg, pats[k])
    ELSE ApplyPats_FirstMatch(res, seg, pats, k + 1)

\* lines 132-135: every pattern from k on, in declared order, on one segment
RECURSIVE ApplyPats(_, _, _, _)
ApplyPats(res, seg, pats, k) ==
    IF k > Len(pats) THEN res
    ELSE ApplyPats(IF Matches(seg, pats[k]) THEN ApplyPat(res, seg, pats[k]) ELSE res,
                   seg, pats, k + 1)

\* lines 125-129: the first loop, over the segments that hold a colon
RECURSIVE ColonPass(_, _, _, _)
ColonPass(res, segments, colon_cfg, n) ==
    IF n > Len(segments) THEN res
    ELSE ColonPass(IF Contains(segments[n], <<":">>)
                   THEN ApplyColon(res, segments[n], colon_cfg) ELSE res,
                   segments, colon_cfg, n + 1)

\* a variant of the second loop that takes every segment, with or without a colon
RECURSIVE PatternPass_AllSegments(_, _, _, _)
PatternPass_AllSegments(res, segments, pats, n) ==
    IF n > Len(segments) THEN res
    ELSE PatternPass_AllSegments(ApplyPats(res, segments[n], pats, 1), segments, pats, n + 1)

\* lines 131-135: the second loop, over the segments without a colon
RECURSIVE PatternPass(_, _, _, _)
PatternPass(res, segments, pats, n) ==
    IF n > Len(segments) THEN res
    ELSE PatternPass(IF ~Contains(segments[n], <<":">>)
                     THEN ApplyPats(res, segments[n], pats, 1) ELSE res,
                     segments, pats, n + 1)

\* rules.get(key, default)
GetOr(d, key, default) == IF key \in DOMAIN d THEN d[key] ELSE default

\* a variant with one loop over the segments, each handled by its style
RECURSIVE SinglePass(_, _, _, _)
SinglePass(res, segments, rules, n) ==
    IF n > Len(segments) THEN res
    ELSE SinglePass(IF Contains(segments[n], <<":">>)
                    THEN ApplyColon(res, segments[n], GetOr(rules, "colon_keys", EmptyDict))
                    ELSE ApplyPats(res, segments[n], GetOr(rules, "non_colon_patterns", <<>>), 1),
                    segments, rules, n + 1)

ApplyRules_SinglePass(segments, rules) == SinglePass(EmptyDict, segments, rules, 1)

\* _apply_rules
ApplyRules(segments, rules) ==
    PatternPass(ColonPass(EmptyDict, segments, GetOr(rules, "colon_keys", EmptyDict), 1),
                segments, GetOr(rules, "non_colon_patterns", <<>>), 1)

\* _parse_spec
ParseSpec(spec, rules) == ApplyRules(SplitSegments(Preprocess(spec)), rules)

\* a compiled name rule: (key, pattern, group); group is [list, g]: an index
\* (list = FALSE, g = <<i>>) or a list of indices
NameRule(key, regex, isList, g) == [key |-> key, regex |-> regex, group |-> [list |-> isList, g |-> g]]

\* a variant without the strip()
NameValue_NoStrip(rule, text) ==
    LET m == ReSearch(rule.regex, text) IN
    IF rule.group.list
    THEN Join([n \in 1..Len(rule.group.g) |-> Group(rule.regex, text, m, rule.group.g[n])], <<" ">>)
    ELSE Group(rule.regex, text, m, rule.group.g[1])

\* lines 86-88: the value a matching rule writes
NameValue(rule, text) ==
    LET m == ReSearch(rule.regex, text) IN
    IF rule.group.list
    THEN Strip(Join([n \in 1..Len(rule.group.g) |-> Group(rule.regex, text, m, rule.group.g[n])], <<" ">>))
    ELSE Strip(Group(rule.regex, text, m, rule.group.g[1]))

\* m.group(i) raises for a rule that matches and names a group its pattern lacks
NameRuleRaises(rule, text) ==
    /\ ReSearch(rule.regex, text).found
    /\ \E n \in 1..Len(rule.group.g) : GroupRaises(rule.regex, rule.group.g[n])

\* a variant that keeps the first value of a key: out.setdefault(key, value)
RECURSIVE NameFold_FirstWins(_, _, _, _)
NameFold_FirstWins(acc, text, rules, k) ==
    IF k > Len(rules) THEN acc
    ELSE NameFold_FirstWins(
            IF ReSearch(rules[k].regex, text).found
            THEN Update(rules[k].key :> Str(NameValue(rules[k], text)), acc) ELSE acc,
            text, rules, k + 1)

\* the loop of _parse_name from rule k on
RECURSIVE NameFold(_, _, _, _)
NameFold(acc, text, rules, k) ==
    IF k > Len(rules) THEN acc
    ELSE NameFold(IF ReSearch(rules[k].regex, text).found
                  THEN Update(acc, rules[k].key :> Str(NameValue(rules[k], text))) ELSE acc,
                  text, rules, k + 1)

\* _parse_name on the compiled table; ok = FALSE when it raises
ParseName(text, category, table) ==
    LET rules == GetOr(table, category, <<>>) IN
    IF \E k \in 1..Len(rules) : NameRuleRaises(rules[k], text)
    THEN [ok |-> FALSE, out |-> EmptyDict]
    ELSE [ok |-> TRUE, out |-> NameFold(EmptyDict, text, rules, 1)]

\* int(text): an optional sign and digits, blanks around them allowed
IsIntText(text) ==
    LET t == Strip(text) IN
    IF Len(t) > 0 /\ t[1] \in {"-", "+"} THEN IsDigits(Tail(t)) ELSE IsDigits(t)

IntOfText(text) ==
    LET t == Strip(text) IN
    IF Len(t) > 0 /\ t[1] = "-" THEN 0 - DigitsVal(Tail(t))
    ELSE IF Len(t) > 0 /\ t[1] = "+" THEN DigitsVal(Tail(t)) ELSE DigitsVal(t)

\* parse without the check of lines 70-71: a category without an entry is parsed
\* with no rules
Parse_NoCategoryCheck(category, row, config, table) ==
    IF ~IsIntText(row.ID)
    THEN [ok |-> FALSE, flat |-> EmptyDict]
    ELSE IF category \notin DOMAIN config
    THEN [ok |-> TRUE,
          flat |-> Update([id |-> IntOfText(row.ID)],
                          [image_url |-> Str(row.ImageURL), product_url |-> Str(row.ProductURL)])]
    ELSE LET nm == ParseName(row.Name, category, table)
             sp == ParseSpec(row.Spec, GetOr(config[category], "spec", EmptyDict))
         IN IF ~nm.ok THEN [ok |-> FALSE, flat |-> EmptyDict]
            ELSE [ok |-> TRUE,
                  flat |-> Update(Update(Update([id |-> IntOfText(row.ID)], nm.out), sp),
                                  [image_url |-> Str(row.ImageURL), product_url |-> Str(row.ProductURL)])]

\* parse: the flat dict, or ok = FALSE when it raises
Parse(category, row, config, table) ==
    IF category \notin DOMAIN config \/ ~IsIntText(row.ID)
    THEN [ok |-> FALSE, flat |-> EmptyDict]
    ELSE LET nm == ParseName(row.Name, category, table)
             sp == ParseSpec(row.Spec, GetOr(config[category], "spec", EmptyDict))
         IN IF ~nm.ok THEN [ok |-> FALSE, flat |-> EmptyDict]
            ELSE [ok |-> TRUE,
                  flat |-> Update(Update(Update([id |-> IntOfText(row.ID)], nm.out), sp),
                                  [image_url |-> Str(row.ImageURL), product_url |-> Str(row.ProductURL)])]

\* lines 178-181: the top-level fields, and the rest under spec
Grouped(flat) ==
    Update([k \in DOMAIN flat \cap TOP_LEVEL_FIELDS |-> flat[k]],
           [spec |-> [k \in DOMAIN flat \ TOP_LEVEL_FIELDS |-> flat[k]]])

\* lines 58-66: the name rules of every category of the configuration
CompileAll(config) ==
    [cat \in DOMAIN config |-> GetOr(config[cat], "name_rules", <<>>)]

(***************************************************************************)
(* State                                                                   *)
(***************************************************************************)
VARIABLES
    \* the data directory
    raw_info,         \* part -> data/raw/<part>/<part>_info.csv, the listing feed
    info_clean,       \* part -> data/raw/<part>/<part>_info_clean.csv
    parsed_dir,       \* part -> data/parsed/<part>_parsed.json
    raw_price,        \* part -> data/raw/<part>/<part>_price.csv
    raw_cpu_bench,    \* data/raw/CPU/CPU_benchmark.csv
    raw_gpu_bench,    \* data/raw/VGA/GPU_benchmark.csv
    final_dir,        \* part or "Storage" -> data/final/<name>_final.json
    \* one run of enrich_products (mapping.py)
    pc,               \* the position of the run
    part_i,           \* the index into PARTS of the part being enriched
    products,         \* the records of that part, in memory
    cpu_bench_map,    \* loaded once per run
    gpu_bench_map,
    storage_products, \* the merged records of the consolidator, in memory
    out,              \* what the run printed, one entry per message
    runs,             \* the runs of enrich_products that are over
    first_final,      \* the final directory as the first run left it
    \* one run of run_clean (cleaner.py)
    clean_rules,      \* clean_rules.yaml: part -> rule
    c_pc,
    c_part_i,
    c_out,            \* what the run printed: the removed count per part
    \* one run of the parser's main block (parser.py)
    yaml_cfg,         \* parser_rules.yaml: category -> rules
    cfg,              \* self.cfg of the parser
    compiled,         \* GenericParser._compiled, a class attribute
    p_pc,
    p_part_i,
    p_row_i,          \* the index of the next row of the listing
    records,          \* the records of the part being parsed, in memory
    \* GenericParser used as a library: several parser objects in one process
    instances,        \* parser object -> whether it was constructed, and its self.cfg
    calls,            \* the parse calls made so far, each with what it returned
    \* one category of the benchmark crawler (benchmark_crawler.py)
    b_net,            \* what the site answers: page -> the outcome of each request for it
    b_pc,
    b_idx,            \* the page being fetched: 0 the listing, i the i-th item
    b_attempt,        \* attempt of the retry loop
    b_delay,          \* delay of the retry loop, in milliseconds
    b_requests,       \* the requests made so far, by page
    b_sleeps,         \* the retry sleeps made so far, each with its page
    b_rows,           \* rows collected so far
    b_log,            \* the warnings and errors logged so far
    b_file,           \* data/raw/<subdir>/<name>_benchmark.csv
    \* the process pool of the listing and price crawlers
    w_fault,          \* category -> the step of its crawl that raises, if any
    w_queue,          \* the categories no pool process has taken yet
    w_proc,           \* pool process -> the category it is crawling
    w_pc,             \* category -> the position of its crawl
    w_session,        \* category -> the state of its browser session
    w_quits,          \* category -> the calls of driver.quit() so far
    w_csv,            \* category -> whether its output file was written
    w_out             \* what the crawls printed

files == <<raw_info, info_clean, parsed_dir, raw_price, raw_cpu_bench, raw_gpu_bench, final_dir>>

e_vars == <<pc, part_i, products, cpu_bench_map, gpu_bench_map, storage_products, out>>

c_vars == <<clean_rules, c_pc, c_part_i, c_out>>

p_vars == <<yaml_cfg, cfg, compiled, p_pc, p_part_i, p_row_i, records>>

a_vars == <<instances, calls>>

r_vars == <<runs, first_final>>

b_vars == <<b_net, b_pc, b_idx, b_attempt, b_delay, b_requests, b_sleeps, b_rows, b_log, b_file>>

w_vars == <<w_fault, w_queue, w_proc, w_pc, w_session, w_quits, w_csv, w_out>>

k_vars == <<b_vars, w_vars>>

vars == <<files, e_vars, c_vars, p_vars, a_vars, r_vars, k_vars>>

\* what a run of enrich_products reads and never writes, and the other programs' state
inputs == <<raw_info, info_clean, parsed_dir, raw_price, raw_cpu_bench, raw_gpu_bench, c_vars, p_vars,
            a_vars, r_vars, k_vars>>

FinalNames == {PARTS[i] : i \in 1..Len(PARTS)} \cup {"Storage"}

Part == PARTS[part_i]

\* enrich_products, lines 180-181: the benchmark maps are loaded once
EnrichStart ==
    /\ pc = "start"
    /\ LET c == LoadCpuBenchMap(raw_cpu_bench)
           g == LoadGpuBenchMap(raw_gpu_bench)
       IN IF c.ok /\ g.ok
          THEN /\ cpu_bench_map' = c.map
               /\ gpu_bench_map' = g.map
               /\ pc' = "part"
          ELSE /\ pc' = "raised"
               /\ UNCHANGED <<cpu_bench_map, gpu_bench_map>>
    /\ part_i' = 1
    /\ UNCHANGED <<inputs, final_dir, products, storage_products, out>>

\* lines 187-189: the parsed file of the part is missing
PartSkip ==
    /\ pc = "part"
    /\ part_i <= Len(PARTS)
    /\ ~parsed_dir[Part].exists
    /\ part_i' = part_i + 1
    /\ out' = Append(out, <<"not found - skip", Part>>)
    /\ UNCHANGED <<inputs, final_dir, pc, products, cpu_bench_map, gpu_bench_map, storage_products>>

\* line 191
PartLoad ==
    /\ pc = "part"
    /\ part_i <= Len(PARTS)
    /\ parsed_dir[Part].exists
    /\ products' = parsed_dir[Part].data
    /\ pc' = "price"
    /\ UNCHANGED <<inputs, final_dir, part_i, cpu_bench_map, gpu_bench_map, storage_products, out>>

\* a variant that writes the final file as soon as the prices are joined
PartPrice_SavesEarly ==
    /\ pc = "price"
    /\ products' = UpdatePriceStock(products, LoadPriceMap(raw_price[Part]))
    /\ final_dir' = [final_dir EXCEPT ![Part] = File(products')]
    /\ pc' = "bench"
    /\ UNCHANGED <<inputs, part_i, cpu_bench_map, gpu_bench_map, storage_products, out>>

\* lines 194-195
PartPrice ==
    /\ pc = "price"
    /\ products' = UpdatePriceStock(products, LoadPriceMap(raw_price[Part]))
    /\ pc' = "bench"
    /\ UNCHANGED <<inputs, final_dir, part_i, cpu_bench_map, gpu_bench_map, storage_products, out>>

\* lines 198-201
PartBench ==
    /\ pc = "bench"
    /\ IF Part = "CPU"
       THEN /\ products' = AttachCpuBenchmarks(products, cpu_bench_map)
            /\ pc' = "save"
       ELSE IF Part = "VGA"
       THEN LET r == AttachGpuBenchmarks(products, gpu_bench_map) IN
            IF r.ok
            THEN products' = r.products /\ pc' = "save"
            ELSE products' = products /\ pc' = "raised"
       ELSE products' = products /\ pc' = "save"
    /\ UNCHANGED <<inputs, final_dir, part_i, cpu_bench_map, gpu_bench_map, storage_products, out>>

\* lines 203-204
PartSave ==
    /\ pc = "save"
    /\ final_dir' = [final_dir EXCEPT ![Part] = File(products)]
    /\ out' = Append(out, <<"updated", Part>>)
    /\ part_i' = part_i + 1
    /\ pc' = "part"
    /\ UNCHANGED <<inputs, products, cpu_bench_map, gpu_bench_map, storage_products>>

\* a variant without the early return: an empty merged file is written
ConsolidateSkip_WritesEmpty ==
    /\ pc = "part"
    /\ part_i > Len(PARTS)
    /\ ~final_dir["SSD"].exists /\ ~final_dir["HDD"].exists
    /\ final_dir' = [final_dir EXCEPT !["Storage"] = File(<<>>)]
    /\ out' = Append(out, <<"created", "Storage">>)
    /\ pc' = "done"
    /\ UNCHANGED <<inputs, part_i, products, cpu_bench_map, gpu_bench_map, storage_products>>

\* _consolidate_storage, lines 146-148: no sibling file exists
ConsolidateSkip ==
    /\ pc = "part"
    /\ part_i > Len(PARTS)
    /\ ~final_dir["SSD"].exists /\ ~final_dir["HDD"].exists
    /\ out' = Append(out, <<"consolidation skipped", "Storage">>)
    /\ pc' = "done"
    /\ UNCHANGED <<inputs, final_dir, part_i, products, cpu_bench_map, gpu_bench_map, storage_products>>

\* a variant that removes the sibling files as soon as they are loaded
ConsolidateMerge_UnlinkFirst ==
    /\ pc = "part"
    /\ part_i > Len(PARTS)
    /\ final_dir["SSD"].exists \/ final_dir["HDD"].exists
    /\ storage_products' = LoadAndTag(final_dir["SSD"], CatSSD) \o LoadAndTag(final_dir["HDD"], CatHDD)
    /\ final_dir' = [final_dir EXCEPT !["SSD"] = NoFile, !["HDD"] = NoFile]
    /\ pc' = "write"
    /\ UNCHANGED <<inputs, part_i, products, cpu_bench_map, gpu_bench_map, out>>

\* lines 158-161
ConsolidateMerge ==
    /\ pc = "part"
    /\ part_i > Len(PARTS)
    /\ final_dir["SSD"].exists \/ final_dir["HDD"].exists
    /\ storage_products' = LoadAndTag(final_dir["SSD"], CatSSD) \o LoadAndTag(final_dir["HDD"], CatHDD)
    /\ pc' = "write"
    /\ UNCHANGED <<inputs, final_dir, part_i, products, cpu_bench_map, gpu_bench_map, out>>

\* a variant that adds the merged records to the records of a Storage file
\* that is already there
ConsolidateWrite_Appends ==
    /\ pc = "write"
    /\ final_dir' = [final_dir EXCEPT !["Storage"] =
                        File((IF final_dir["Storage"].exists THEN final_dir["Storage"].data ELSE <<>>)
                             \o storage_products)]
    /\ out' = Append(out, <<"created", "Storage">>)
    /\ pc' = "unlink_ssd"
    /\ UNCHANGED <<inputs, part_i, products, cpu_bench_map, gpu_bench_map, storage_products>>

\* lines 163-164
ConsolidateWrite ==
    /\ pc = "write"
    /\ final_dir' = [final_dir EXCEPT !["Storage"] = File(storage_products)]
    /\ out' = Append(out, <<"created", "Storage">>)
    /\ pc' = "unlink_ssd"
    /\ UNCHANGED <<inputs, part_i, products, cpu_bench_map, gpu_bench_map, storage_products>>

\* lines 167-170, one iteration for the file of sibling `name`
Unlink(name, next) ==
    /\ IF final_dir[name].exists
       THEN /\ final_dir' = [final_dir EXCEPT ![name] = NoFile]
            /\ out' = Append(out, <<"removed", name>>)
       ELSE UNCHANGED <<final_dir, out>>
    /\ pc' = next
    /\ UNCHANGED <<inputs, part_i, products, cpu_bench_map, gpu_bench_map, storage_products>>

ConsolidateUnlinkSSD == pc = "unlink_ssd" /\ Unlink("SSD", "unlink_hdd")

ConsolidateUnlinkHDD == pc = "unlink_hdd" /\ Unlink("HDD", "done")

\* enrich_products is called a second time, the first run being over (returned
\* or raised), on the data directory as it is: every local of the run is new
EnrichAgain ==
    /\ pc \in {"done", "raised"}
    /\ runs = 0
    /\ runs' = 1
    /\ first_final' = final_dir
    /\ pc' = "start"
    /\ part_i' = 0
    /\ products' = <<>>
    /\ cpu_bench_map' = EmptyDict
    /\ gpu_bench_map' = <<>>
    /\ storage_products' = <<>>
    /\ out' = <<>>
    /\ UNCHANGED <<files, c_vars, p_vars, a_vars, k_vars>>

EnrichNext ==
    \/ EnrichStart
    \/ PartSkip
    \/ PartLoad
    \/ PartPrice
    \/ PartBench
    \/ PartSave
    \/ ConsolidateSkip
    \/ ConsolidateMerge
    \/ ConsolidateWrite
    \/ ConsolidateUnlinkSSD
    \/ ConsolidateUnlinkHDD
    \/ EnrichAgain

(***************************************************************************)
(* parser.py: the main block                                               *)
(***************************************************************************)
\* what the parser run reads and never writes, and the other programs' state
p_inputs == <<raw_info, info_clean, raw_price, raw_cpu_bench, raw_gpu_bench, final_dir,
              yaml_cfg, e_vars, c_vars, a_vars, r_vars, k_vars>>

PPart == parts[p_part_i]

\* line 167, GenericParser(): the configuration is read and the name rules of
\* every category are stored in the class attribute _compiled
ParserConstruct ==
    /\ p_pc = "start"
    /\ cfg' = yaml_cfg
    /\ compiled' = Update(compiled, CompileAll(yaml_cfg))
    /\ p_part_i' = 1
    /\ p_pc' = "open"
    /\ UNCHANGED <<p_inputs, parsed_dir, p_row_i, records>>

\* line 175: src_path.open raises FileNotFoundError
ParserOpenMissing ==
    /\ p_pc = "open"
    /\ p_part_i <= Len(parts)
    /\ ~info_clean[PPart].exists
    /\ p_pc' = "raised"
    /\ UNCHANGED <<p_inputs, parsed_dir, cfg, compiled, p_part_i, p_row_i, records>>

\* lines 172-175
ParserOpen ==
    /\ p_pc = "open"
    /\ p_part_i <= Len(parts)
    /\ info_clean[PPart].exists
    /\ records' = <<>>
    /\ p_row_i' = 1
    /\ p_pc' = "rows"
    /\ UNCHANGED <<p_inputs, parsed_dir, cfg, compiled, p_part_i>>

\* lines 176-182: one row is parsed and grouped; an exception ends the run
ParserRow ==
    /\ p_pc = "rows"
    /\ p_row_i <= Len(info_clean[PPart].data)
    /\ LET r == Parse(PPart, info_clean[PPart].data[p_row_i], cfg, compiled) IN
       IF r.ok
       THEN /\ records' = Append(records, Grouped(r.flat))
            /\ p_row_i' = p_row_i + 1
            /\ p_pc' = "rows"
       ELSE /\ p_pc' = "raised"
            /\ UNCHANGED <<records, p_row_i>>
    /\ UNCHANGED <<p_inputs, parsed_dir, cfg, compiled, p_part_i>>

\* lines 183-184
ParserWrite ==
    /\ p_pc = "rows"
    /\ p_row_i > Len(info_clean[PPart].data)
    /\ parsed_dir' = [parsed_dir EXCEPT ![PPart] = File(records)]
    /\ p_part_i' = p_part_i + 1
    /\ p_pc' = "open"
    /\ UNCHANGED <<p_inputs, cfg, compiled, p_row_i, records>>

\* the loop over parts is over
ParserDone ==
    /\ p_pc = "open"
    /\ p_part_i > Len(parts)
    /\ p_pc' = "done"
    /\ UNCHANGED <<p_inputs, parsed_dir, cfg, compiled, p_part_i, p_row_i, records>>

ParseNext ==
    \/ ParserConstruct
    \/ ParserOpenMissing
    \/ ParserOpen
    \/ ParserRow
    \/ ParserWrite
    \/ ParserDone

(***************************************************************************)
(* The inputs of a run of enrich_products                                  *)
(***************************************************************************)
MaxRecs == 2        \* records in one parsed file
MaxPriceRows == 2   \* rows in one price feed
MaxBenchRows == 2   \* rows in one benchmark feed

\* the sequences over pool of length at most n
SeqsUpTo(pool, n) == UNION {[1..k -> pool] : k \in 0..n}

PartSet == {PARTS[i] : i \in 1..Len(PARTS)}

Url == <<"u">>

Rec(id, name, spec) ==
    [id |-> id, name |-> Str(name), image_url |-> Str(Url), product_url |-> Str(Url), spec |-> spec]

PriceRow(id, price) == [ID |-> id, Price |-> price]

\* records of a part without benchmarks
RecPool ==
    {Rec(1, <<"A">>, EmptyDict),
     Rec(2, <<"B">>, [socket |-> Str(<<"s">>)])}

\* parseable, zero, blank and non-numeric prices; id 1 occurs with several prices
PriceRowPool ==
    {PriceRow(1, <<"1", "2">>), PriceRow(1, <<"7">>), PriceRow(1, <<>>),
     PriceRow(2, <<"0">>), PriceRow(2, <<"x">>)}

DefaultPrice == File(<<PriceRow(1, <<"1", "2">>)>>)

\* "AMD R5" and "k_in k_tel Core i5"; the first already holds a metric key
CpuRecPool ==
    {Rec(1, <<"A", "M", "D", " ", "R", "5">>, [cinebench_r23_multi |-> Str(<<"7">>)]),
     Rec(2, <<"k_in", "k_tel", " ", "C", "o", "r", "e", " ", "i", "5">>, EmptyDict)}

BenchRow(name, cells) == [name |-> name, cells |-> cells]

\* "R5" with a number, a zero, a blank, a dash and a word; "AMD R5", which has the
\* normalized name of "R5"; "Core i5" with fractions and columns missing
CpuBenchRowPool ==
    {BenchRow(<<"R", "5">>,
        [cb_r23_single_col |-> <<"1", "2">>, cb_r23_multi_col |-> <<"0">>,
         gb6_single_col |-> <<>>, gb6_multi_col |-> <<"-">>, blender_cpu_col |-> <<"x">>]),
     BenchRow(<<"A", "M", "D", " ", "R", "5">>,
        [cb_r23_single_col |-> <<"5">>, cb_r23_multi_col |-> <<"5">>,
         gb6_single_col |-> <<"5">>, gb6_multi_col |-> <<"5">>, blender_cpu_col |-> <<"5">>]),
     BenchRow(<<"C", "o", "r", "e", " ", "i", "5">>,
        [cb_r23_single_col |-> <<"0", ".", "5">>, cb_r23_multi_col |-> <<"7", ".", "9">>])}

\* chipset "RX 6" with 8GB; a chipset without memory; a list-valued chipset
VgaRecPool ==
    {Rec(1, <<"V">>, [chipset |-> Str(<<"R", "X", " ", "6">>),
                      memory_capacity |-> Str(<<"8", "G", "B">>)]),
     Rec(2, <<"W">>, [chipset |-> Str(<<" ", "r", "x", " ", "6">>),
                      blender_gpu |-> Str(<<"4">>)]),
     Rec(3, <<"X">>, [chipset |-> List(<< <<"R", "X">>, <<"6">> >>)])}

\* "rx 6 (8GB)" with no metric other than zero
BenchRowAllZero ==
    BenchRow(<<"r", "x", " ", "6", " ", "(", "8", "G", "B", ")">>, [steel_nomad_col |-> <<"0">>])

\* "RX 6 (8GB)", "RX 6", "RX 6 (4GB)" and "rx 6 (8GB)"
GpuBenchRowPool ==
    {BenchRow(<<"R", "X", " ", "6", " ", "(", "8", "G", "B", ")">>,
        [steel_nomad_col |-> <<"0">>, gb6_compute_col |-> <<"-">>, blender_gpu_col |-> <<"3", "0">>]),
     BenchRow(<<"R", "X", " ", "6">>,
        [steel_nomad_col |-> <<"5">>, gb6_compute_col |-> <<"9">>, blender_gpu_col |-> <<>>]),
     BenchRow(<<"R", "X", " ", "6", " ", "(", "4", "G", "B", ")">>,
        [steel_nomad_col |-> <<"8">>]),
     BenchRowAllZero}

\* storage records; one already holds a category
StorageRecPool ==
    {Rec(1, <<"S">>, EmptyDict),
     Rec(2, <<"T">>, [category |-> Str(<<"o", "l", "d">>)])}

FilesOf(pool, n) == {NoFile} \cup {File(d) : d \in SeqsUpTo(pool, n)}

\* a Storage_final.json left by an earlier run
StaleStorage == File(<<Rec(9, <<"Z">>, [category |-> Str(CatSSD)])>>)

\* an SSD_final.json left by a run that ended before its consolidator
StaleSibling == File(<<Rec(8, <<"Y">>, EmptyDict)>>)

AllMissing == [p \in PartSet |-> NoFile]

NoFinal == [n \in FinalNames |-> NoFile]

\* no parser object has been constructed by a caller of the library
ParserIds == {"p1", "p2"}

NotBuilt == [built |-> FALSE, cfg |-> EmptyDict]

\* three of the categories of the listing crawler, and the pool's processes
CATEGORIES == <<"CPU", "VGA", "SSD">>
CategorySet == {CATEGORIES[i] : i \in 1..Len(CATEGORIES)}
PoolProcs == {"w1", "w2"}

BenchIdle ==
    /\ b_net = <<>>
    /\ b_pc = "idle"
    /\ b_idx = 0
    /\ b_attempt = 0
    /\ b_delay = 0
    /\ b_requests = <<>>
    /\ b_sleeps = <<>>
    /\ b_rows = <<>>
    /\ b_log = <<>>
    /\ b_file = NoFile

PoolIdle ==
    /\ w_fault = [c \in CategorySet |-> "none"]
    /\ w_queue = <<>>
    /\ w_proc = [p \in PoolProcs |-> "idle"]
    /\ w_pc = [c \in CategorySet |-> "idle"]
    /\ w_session = [c \in CategorySet |-> "none"]
    /\ w_quits = [c \in CategorySet |-> 0]
    /\ w_csv = [c \in CategorySet |-> FALSE]
    /\ w_out = <<>>

\* neither crawler is running
CrawlersIdle == BenchIdle /\ PoolIdle

ApiIdle ==
    /\ instances = [p \in ParserIds |-> NotBuilt]
    /\ calls = <<>>

\* the other two programs are not running
CleanIdle ==
    /\ clean_rules = EmptyDict
    /\ c_pc = "idle"
    /\ c_part_i = 0
    /\ c_out = <<>>

ParseIdle ==
    /\ yaml_cfg = EmptyDict
    /\ cfg = EmptyDict
    /\ compiled = EmptyDict
    /\ p_pc = "idle"
    /\ p_part_i = 0
    /\ p_row_i = 0
    /\ records = <<>>

EnrichFresh ==
    /\ pc = "start"
    /\ part_i = 0
    /\ products = <<>>
    /\ cpu_bench_map = EmptyDict
    /\ gpu_bench_map = <<>>
    /\ storage_products = <<>>
    /\ out = <<>>
    /\ runs = 0
    /\ first_final = NoFinal
    /\ raw_info = AllMissing
    /\ info_clean = AllMissing

\* one part with records and its price feed
InitPriceFamily ==
    /\ \E recs \in SeqsUpTo(RecPool, MaxRecs), feed \in FilesOf(PriceRowPool, MaxPriceRows) :
          /\ parsed_dir = [AllMissing EXCEPT !["Cooler"] = File(recs)]
          /\ raw_price = [AllMissing EXCEPT !["Cooler"] = feed]
    /\ raw_cpu_bench = NoFile
    /\ raw_gpu_bench = NoFile
    /\ final_dir = NoFinal

\* the CPU records and the CPU benchmark feed
InitCpuFamily ==
    /\ \E recs \in SeqsUpTo(CpuRecPool, MaxRecs) :
          parsed_dir = [AllMissing EXCEPT !["CPU"] = File(recs)]
    /\ raw_price = [p \in PartSet |-> DefaultPrice]
    /\ raw_cpu_bench \in FilesOf(CpuBenchRowPool, MaxBenchRows)
    /\ raw_gpu_bench = NoFile
    /\ final_dir = NoFinal

\* the VGA records and the GPU benchmark feed
InitVgaFamily ==
    /\ \E recs \in SeqsUpTo(VgaRecPool, MaxRecs) :
          parsed_dir = [AllMissing EXCEPT !["VGA"] = File(recs)]
    /\ raw_price = [p \in PartSet |-> DefaultPrice]
    /\ raw_cpu_bench = NoFile
    /\ raw_gpu_bench \in FilesOf(GpuBenchRowPool, MaxBenchRows)
    /\ final_dir = NoFinal

\* the storage siblings, with or without the other parts and an earlier Storage file
InitStorageFamily ==
    /\ \E ssd, hdd \in FilesOf(StorageRecPool, MaxRecs), others \in {NoFile, File(<<Rec(1, <<"A">>, EmptyDict)>>)} :
          parsed_dir = [p \in PartSet |-> IF p = "SSD" THEN ssd ELSE IF p = "HDD" THEN hdd ELSE others]
    /\ raw_price = [p \in PartSet |-> DefaultPrice]
    /\ raw_cpu_bench = NoFile
    /\ raw_gpu_bench = NoFile
    /\ \/ final_dir \in {NoFinal, [NoFinal EXCEPT !["Storage"] = StaleStorage]}
       \/ /\ parsed_dir["SSD"].exists
          /\ final_dir = [NoFinal EXCEPT !["SSD"] = StaleSibling]

InitEnrich ==
    /\ EnrichFresh
    /\ ApiIdle
    /\ CrawlersIdle
    /\ CleanIdle
    /\ ParseIdle
    /\ \/ InitPriceFamily
       \/ InitCpuFamily
       \/ InitVgaFamily
       \/ InitStorageFamily

SpecEnrich == InitEnrich /\ [][EnrichNext]_vars

(***************************************************************************)
(* The inputs of a run of the parser                                       *)
(***************************************************************************)
MaxRows == 1        \* rows in the listing of the part under study
MaxNameRules == 2   \* name rules of a category
MaxPats == 2        \* positional patterns of a category

ListingRow(id, name, spec) ==
    [ID |-> id, Name |-> name, Spec |-> spec, ImageURL |-> Url, ProductURL |-> Url]

\* "k_in k_tel k_ko k_eo i5-14400F", a name with a padded "X", a name no rule matches
NameIntel == <<"k_in", "k_tel", " ", "k_ko", "k_eo", "i", "5", "-", "1", "4", "4", "0", "0", "F">>
NamePadded == <<"a", " ", " ", "X", " ", "k_ko", "k_eo", "i", "7", "-", "2", "F">>
NamePlain == <<"z">>

NamePool == {NameIntel, NamePadded, NamePlain}

\* (k_ko k_eo i\d)-(\d+F)
ReModel ==
    <<Lit("k_ko", 1), Lit("k_eo", 1), Lit("i", 1), One(Digits, 1), Lit("-", 0),
      Plus(Digits, 2), Lit("F", 2)>>

\* ( +X +)(k_ko)
RePadded == <<Plus({" "}, 1), Lit("X", 1), Plus({" "}, 1), Lit("k_ko", 2)>>

NameRulePool ==
    {NameRule("model", ReModel, FALSE, <<1>>),
     NameRule("model", ReModel, TRUE, <<1, 2>>),
     NameRule("model", RePadded, FALSE, <<1>>),
     NameRule("brand", RePadded, TRUE, <<1>>),
     NameRule("pair", RePadded, TRUE, <<2, 1>>)}

\* the labels "k_so k_ket" (socket), "k_yong k_ryang" (capacity) and "TDP"
LabelSocket == <<"k_so", "k_ket">>
LabelCapacity == <<"k_yong", "k_ryang">>
LabelTdp == <<"T", "D", "P">>

ColonKeys ==
    (LabelSocket :> "socket") @@ (LabelCapacity :> "capacity") @@ (LabelTdp :> "tdp")

\* (\d+)W, \d+, (\d+)-(\d+), (\d+)C
ReWatt == <<Plus(Digits, 1), Lit("W", 0)>>
ReNumber == <<Plus(Digits, 0)>>
ReRange == <<Plus(Digits, 1), Lit("-", 0), Plus(Digits, 2)>>
ReCores == <<Plus(Digits, 1), Lit("C", 0)>>

PatPool ==
    {[key |-> "tdp", endswith |-> <<"W">>],
     [key |-> "tdp", regex |-> ReWatt, extract |-> ReWatt],
     [key |-> "cores", contains |-> <<"C">>, extract_all |-> ReNumber],
     [key |-> "tdp", contains_any |-> << <<"W">>, <<"C">> >>, split_on |-> <<"+">>],
     [key |-> "clock", regex |-> ReRange, groups |-> <<1, 2>>],
     [key |-> "cores", regex |-> ReCores, groups |-> <<1>>]}

\* "TDP: 65W / 95W", "95W / TDP: 65W", "k_yong k_ryang: 256GB, 512GB",
\* "k_so k_ket: LGA1700", "TDP: 3 / TDP :1:2", "6C+12W / 3-4", "x: 1 / 8C"
SpecTextPool ==
    {<<"T", "D", "P", ":", " ", "6", "5", "W", " ", "/", " ", "9", "5", "W">>,
     <<"9", "5", "W", " ", "/", " ", "T", "D", "P", ":", " ", "6", "5", "W">>,
     <<"k_yong", "k_ryang", ":", " ", "2", "5", "6", "G", "B", ",", " ", "5", "1", "2", "G", "B">>,
     <<"k_so", "k_ket", ":", " ", "L", "G", "A", "1", "7", "0", "0">>,
     <<"T", "D", "P", ":", " ", "3", " ", "/", " ", "T", "D", "P", " ", ":", "1", ":", "2">>,
     <<"6", "C", "+", "1", "2", "W", " ", "/", " ", "3", "-", "4">>,
     <<"x", ":", " ", "1", " ", "/", " ", "8", "C">>}

\* a configuration with an entry for every part; the part CPU has the rules given
ConfigWith(name_rules, pats) ==
    [c \in PartSet |->
        IF c = "CPU"
        THEN [name_rules |-> name_rules,
              spec |-> [colon_keys |-> ColonKeys, non_colon_patterns |-> pats]]
        ELSE EmptyDict]

PlainRow == ListingRow(<<"7">>, NamePlain, <<>>)

ParserFresh ==
    /\ cfg = EmptyDict
    /\ compiled = EmptyDict
    /\ p_pc = "start"
    /\ p_part_i = 0
    /\ p_row_i = 0
    /\ records = <<>>
    /\ parsed_dir = AllMissing
    /\ raw_info = AllMissing

EnrichIdle ==
    /\ pc = "idle"
    /\ part_i = 0
    /\ products = <<>>
    /\ cpu_bench_map = EmptyDict
    /\ gpu_bench_map = <<>>
    /\ storage_products = <<>>
    /\ out = <<>>
    /\ runs = 0
    /\ first_final = NoFinal
    /\ raw_price = AllMissing
    /\ raw_cpu_bench = NoFile
    /\ raw_gpu_bench = NoFile
    /\ final_dir = NoFinal

\* the CPU listing with names from the pool, the name rules drawn from the pool:
\* a short listing with many rules, or a long listing with few
InitNameFamily ==
    \E b \in {<<1, MaxNameRules>>, <<MaxRows, 1>>} :
        /\ \E rows \in SeqsUpTo({ListingRow(<<"1", "0", "0">>, n, <<>>) : n \in NamePool}, b[1]) :
              info_clean = [AllMissing EXCEPT !["CPU"] = File(rows)]
        /\ \E rules \in SeqsUpTo(NameRulePool, b[2]) :
              yaml_cfg = ConfigWith(rules, <<>>)

\* the CPU listing with spec texts from the pool, the positional patterns drawn
\* from the pool: a short listing with many patterns, or a long listing with few
InitSpecFamily ==
    \E b \in {<<1, MaxPats>>, <<MaxRows, 1>>} :
        /\ \E rows \in SeqsUpTo({ListingRow(<<"1", "0", "0">>, NamePlain, t) : t \in SpecTextPool}, b[1]) :
              info_clean = [AllMissing EXCEPT !["CPU"] = File(rows)]
        /\ \E pats \in SeqsUpTo(PatPool, b[2]) :
              yaml_cfg = ConfigWith(<<>>, pats)

\* the listing of the end-to-end scenario: ID 100, the name
\* "k_in k_tel k_ko k_eo i5-14400F", the Spec "k_so k_ket: LGA1700 / TDP: 65W"
ScenarioSpecText ==
    <<"k_so", "k_ket", ":", " ", "L", "G", "A", "1", "7", "0", "0", " ", "/", " ",
      "T", "D", "P", ":", " ", "6", "5", "W">>

ScenarioRow == ListingRow(<<"1", "0", "0">>, NameIntel, ScenarioSpecText)

\* the pattern k_ko k_eo i5-14400F, as the scenario writes it (no group) and
\* with the whole of it in a group
ReScenario ==
    <<Lit("k_ko", 0), Lit("k_eo", 0), Lit("i", 0), Lit("5", 0), Lit("-", 0), Lit("1", 0),
      Lit("4", 0), Lit("4", 0), Lit("0", 0), Lit("0", 0), Lit("F", 0)>>

ReScenarioGrouped == [k \in 1..Len(ReScenario) |-> [ReScenario[k] EXCEPT !.grp = 1]]

ScenarioConfig == ConfigWith(<<NameRule("model", ReScenario, FALSE, <<1>>)>>, <<>>)

\* the scenario listing, alone or before or after another row, with the name
\* rule in either form
InitScenario ==
    /\ \E rows \in {<<ScenarioRow>>, <<PlainRow, ScenarioRow>>, <<ScenarioRow, PlainRow>>} :
          \E rest \in {NoFile, File(<<PlainRow>>)} :
             info_clean = [p \in PartSet |-> IF p = "CPU" THEN File(rows) ELSE rest]
    /\ \E re \in {ReScenario, ReScenarioGrouped} :
          yaml_cfg = ConfigWith(<<NameRule("model", re, FALSE, <<1>>)>>, <<>>)

\* a listing for every part
InitAllParts ==
    /\ \E rows \in SeqsUpTo({PlainRow}, MaxRows) :
          info_clean = [p \in PartSet |-> File(rows)]
    /\ yaml_cfg = ConfigWith(<<>>, <<>>)

\* patterns whose predicate can match a segment their extract regex or their
\* groups regex does not match, and an extract_all pattern whose regex has a group
FallThroughPatPool ==
    {[key |-> "tdp", contains |-> <<"C">>, extract |-> ReWatt],
     [key |-> "tdp", endswith |-> <<"W">>, extract |-> ReWatt],
     [key |-> "clock", contains |-> <<"C">>, regex |-> ReRange, groups |-> <<1, 2>>],
     [key |-> "tdp", endswith |-> <<"W">>, extract_all |-> ReWatt]}

\* "8C", "65W / 8C", "TDP: 65W / 8C"
FallThroughTextPool ==
    {<<"8", "C">>,
     <<"6", "5", "W", " ", "/", " ", "8", "C">>,
     <<"T", "D", "P", ":", " ", "6", "5", "W", " ", "/", " ", "8", "C">>}

\* one row with a text of the pool, and patterns of the pool
InitFallThrough ==
    /\ \E t \in FallThroughTextPool :
          info_clean = [AllMissing EXCEPT !["CPU"] = File(<<ListingRow(<<"1">>, NamePlain, t)>>)]
    /\ \E pats \in SeqsUpTo(FallThroughPatPool, MaxPats) :
          yaml_cfg = ConfigWith(<<>>, pats)

\* texts for the segmenter. With the noise marker: "ab k_so k_eum (k_yu k_hyu / k_tam k_saek)"
\* without dB, "k_so k_eum (k_yu k_hyu / k_tam k_saek 1/2dB) / x/y",
\* "1dB / k_so k_eum (k_yu k_hyu / k_tam k_saek)" with dB before the marker only.
\* With brackets: "a [b/c] d / e", "[x] / / y ", "a [b / c", "a[b]c /[d]", " / ".
\* With a label that is no colon key: "y / x: 1"
SegmenterTextPool ==
    {<<"a", "b", " ">> \o NOISE_MARK \o NOISE_RANGE \o <<")">>,
     NOISE_MARK \o NOISE_RANGE \o <<" ", "1", "/", "2">> \o DECIBEL \o <<")", " ", "/", " ", "x", "/", "y">>,
     <<"1">> \o DECIBEL \o <<" ", "/", " ">> \o NOISE_MARK \o NOISE_RANGE \o <<")">>,
     <<"a", " ", "[", "b", "/", "c", "]", " ", "d", " ", "/", " ", "e">>,
     <<"[", "x", "]", " ", "/", " ", "/", " ", "y", " ">>,
     <<"a", " ", "[", "b", " ", "/", " ", "c">>,
     <<"a", "[", "b", "]", "c", " ", "/", "[", "d", "]">>,
     <<" ", "/", " ">>,
     <<"y", " ", "/", " ", "x", ":", " ", "1">>}

\* a listing whose rows hold texts of the pool; a pattern that matches every
\* segment and keeps it, or no pattern
InitSegmenter ==
    /\ \E rows \in SeqsUpTo({ListingRow(<<"1">>, NamePlain, t) : t \in SegmenterTextPool}, MaxRows) :
          info_clean = [AllMissing EXCEPT !["CPU"] = File(rows)]
    /\ \E pats \in {<<>>, <<[key |-> "seg", regex |-> <<>>]>>} :
          yaml_cfg = ConfigWith(<<>>, pats)

\* a listing for every part, and a configuration without an entry for one part
InitMissingEntry ==
    /\ \E rows \in SeqsUpTo({PlainRow}, MaxRows) :
          info_clean = [p \in PartSet |-> File(rows)]
    /\ \E m \in {"CPU", "Memory", "PSU"} :
          yaml_cfg = [c \in PartSet \ {m} |-> ConfigWith(<<>>, <<>>)[c]]

InitParse ==
    /\ ParserFresh
    /\ ApiIdle
    /\ CrawlersIdle
    /\ EnrichIdle
    /\ CleanIdle
    /\ \/ InitNameFamily
       \/ InitSpecFamily
       \/ InitAllParts
       \/ InitScenario
       \/ InitMissingEntry
       \/ InitFallThrough
       \/ InitSegmenter

SpecParse == InitParse /\ [][ParseNext]_vars

(***************************************************************************)
(* cleaner.py: clean_csv                                                   *)
(* pandas.read_csv reads a cell as missing when its text is one of the     *)
(* default missing-value texts, and gives a column the type int64 when     *)
(* every cell is a whole number, float64 when every cell is a whole number *)
(* or missing, object (text) otherwise; to_csv writes a missing cell as    *)
(* the empty text.                                                         *)
(***************************************************************************)
\* the parts of the main block of cleaner.py
CLEAN_PARTS == <<"CPU", "Cooler", "Motherboard", "Memory", "VGA", "SSD", "HDD", "Case", "PSU">>

\* texts read_csv takes for a missing cell: "", NA, N/A, NULL, null, NaN, nan, n/a
NA_VALUES ==
    {<<>>, <<"N", "A">>, <<"N", "/", "A">>, <<"N", "U", "L", "L">>, <<"n", "u", "l", "l">>,
     <<"N", "a", "N">>, <<"n", "a", "n">>, <<"n", "/", "a">>}

\* the columns the listing crawler writes
LISTING_COLUMNS == <<"ID", "Name", "Spec", "ImageURL", "ProductURL">>

\* the type read_csv gives a column with these cells
ColumnKind(cells) ==
    IF Len(cells) = 0 THEN "object"
    ELSE IF \A i \in 1..Len(cells) : IsDigits(cells[i]) THEN "int"
    ELSE IF \A i \in 1..Len(cells) : IsDigits(cells[i]) \/ cells[i] \in NA_VALUES THEN "float"
    ELSE "object"

\* a cell as read: None when missing, the text otherwise
ReadCell(cell) == IF cell \in NA_VALUES THEN None ELSE Some(cell)

\* a cell of a column of the given type, read and written back
WriteCell(kind, cell) ==
    IF ReadCell(cell) = None THEN <<>>
    ELSE IF kind = "int" THEN NatToStr(DigitsVal(cell))
    ELSE IF kind = "float" THEN NatToStr(DigitsVal(cell)) \o <<".", "0">>
    ELSE cell

ColumnOf(rows, col) == [i \in 1..Len(rows) |-> rows[i][col]]

\* re.compile(r, re.I): case is ignored by folding the pattern and the text
FoldRe(re) == [k \in 1..Len(re) |-> [re[k] EXCEPT !.cls = {LowerChar(c) : c \in re[k].cls}]]

ReSearchI(re, text) == ReSearch(FoldRe(re), Lower(text)).found

\* Series.str.contains of the alternation of the escaped strings, re.I:
\* a missing name gives no hit
ContainsHit(name, contains) ==
    /\ name # None
    /\ \E k \in 1..Len(contains) : Contains(Lower(name[1]), Lower(contains[k]))

\* Series.str.contains(rgx) for one compiled pattern
RegexHit(name, rgx) == name # None /\ ReSearchI(rgx, name[1])

\* a variant of the mask that leaves the substrings out
RowMask_RegexOnly(name, contains, regexes) ==
    \E k \in 1..Len(regexes) : RegexHit(name, regexes[k])

\* lines 55-64: the mask of one row
RowMask(name, contains, regexes) ==
    \/ Len(contains) > 0 /\ ContainsHit(name, contains)
    \/ \E k \in 1..Len(regexes) : RegexHit(name, regexes[k])

\* df[~mask]: the rows from i on whose mask is false, in order
RECURSIVE KeepRows(_, _, _)
KeepRows(rows, mask, i) ==
    IF i > Len(rows) THEN <<>>
    ELSE (IF mask[i] THEN <<>> ELSE <<rows[i]>>) \o KeepRows(rows, mask, i + 1)

\* clean_csv on the rows of csv_path: ok = FALSE when .str raises AttributeError
\* (the Name column is not text), else the rows written and the count printed.
\* Every listing has the column Name, so the fallback of line 50 is not taken.
CleanCsv(rows, rules) ==
    LET contains == GetOr(rules, "drop_if_name_contains", <<>>)
        regexes  == GetOr(rules, "drop_if_name_regex", <<>>)
        names    == ColumnOf(rows, "Name")
        mask     == [i \in 1..Len(rows) |-> RowMask(ReadCell(names[i]), contains, regexes)]
        kind     == [c \in {LISTING_COLUMNS[k] : k \in 1..Len(LISTING_COLUMNS)} |->
                        ColumnKind(ColumnOf(rows, c))]
        kept     == KeepRows(rows, mask, 1)
    IN IF (Len(contains) > 0 \/ Len(regexes) > 0) /\ kind["Name"] # "object"
       THEN [ok |-> FALSE, data |-> <<>>, removed |-> 0]
       ELSE [ok |-> TRUE,
             data |-> [i \in 1..Len(kept) |->
                          [c \in DOMAIN kept[i] |-> WriteCell(kind[c], kept[i][c])]],
             removed |-> Cardinality({i \in 1..Len(rows) : mask[i]})]

(***************************************************************************)
(* cleaner.py: run_clean                                                   *)
(***************************************************************************)
\* what run_clean reads and never writes, and the other programs' state
c_inputs == <<raw_info, parsed_dir, raw_price, raw_cpu_bench, raw_gpu_bench, final_dir,
              clean_rules, e_vars, p_vars, a_vars, r_vars, k_vars>>

CPart == CLEAN_PARTS[c_part_i]

\* line 82
PartRules == GetOr(clean_rules, CPart, EmptyDict)

\* lines 74-75: the rules are loaded
CleanStart ==
    /\ c_pc = "start"
    /\ c_part_i' = 1
    /\ c_pc' = "part"
    /\ UNCHANGED <<c_inputs, info_clean, c_out>>

\* a variant that goes on to the next part without writing the copy
CleanCopy_NoWrite ==
    /\ c_pc = "part"
    /\ c_part_i <= Len(CLEAN_PARTS)
    /\ PartRules = EmptyDict
    /\ raw_info[CPart].exists
    /\ c_out' = Append(c_out, <<"copied", CPart, 0>>)
    /\ c_part_i' = c_part_i + 1
    /\ UNCHANGED <<c_inputs, info_clean, c_pc>>

\* lines 83-86: no rules for the part, the listing is copied
CleanCopy ==
    /\ c_pc = "part"
    /\ c_part_i <= Len(CLEAN_PARTS)
    /\ PartRules = EmptyDict
    /\ raw_info[CPart].exists
    /\ info_clean' = [info_clean EXCEPT ![CPart] = File(raw_info[CPart].data)]
    /\ c_out' = Append(c_out, <<"copied", CPart, 0>>)
    /\ c_part_i' = c_part_i + 1
    /\ UNCHANGED <<c_inputs, c_pc>>

\* line 88: clean_csv writes the filtered listing
CleanFilter ==
    /\ c_pc = "part"
    /\ c_part_i <= Len(CLEAN_PARTS)
    /\ PartRules # EmptyDict
    /\ raw_info[CPart].exists
    /\ LET r == CleanCsv(raw_info[CPart].data, PartRules) IN
          /\ r.ok
          /\ info_clean' = [info_clean EXCEPT ![CPart] = File(r.data)]
          /\ c_out' = Append(c_out, <<"removed", CPart, r.removed>>)
    /\ c_part_i' = c_part_i + 1
    /\ UNCHANGED <<c_inputs, c_pc>>

\* line 85 or 49: the listing is missing (FileNotFoundError), or line 60 or 64:
\* the Name column is not text (AttributeError); the run ends
CleanRaise ==
    /\ c_pc = "part"
    /\ c_part_i <= Len(CLEAN_PARTS)
    /\ \/ ~raw_info[CPart].exists
       \/ /\ raw_info[CPart].exists
          /\ PartRules # EmptyDict
          /\ ~CleanCsv(raw_info[CPart].data, PartRules).ok
    /\ c_pc' = "raised"
    /\ UNCHANGED <<c_inputs, info_clean, c_out, c_part_i>>

\* the loop over parts is over
CleanDone ==
    /\ c_pc = "part"
    /\ c_part_i > Len(CLEAN_PARTS)
    /\ c_pc' = "done"
    /\ UNCHANGED <<c_inputs, info_clean, c_out, c_part_i>>

CleanNext ==
    \/ CleanStart
    \/ CleanCopy
    \/ CleanFilter
    \/ CleanRaise
    \/ CleanDone

(***************************************************************************)
(* The inputs of a run of run_clean                                        *)
(***************************************************************************)
MaxCleanRows == 2   \* rows in the CPU listing
MaxNeedles == 1     \* strings in drop_if_name_contains
MaxRegexes == 1     \* patterns in drop_if_name_regex

\* "Xeon E5", "k_hae k_oe a", "core i5 USED", "Ryzen 5" and a listing without a name
NameXeon == <<"X", "e", "o", "n", " ", "E", "5">>
NameOverseas == <<"k_hae", "k_oe", " ", "a">>
NameUsed == <<"c", "o", "r", "e", " ", "i", "5", " ", "U", "S", "E", "D">>
NameRyzen == <<"R", "y", "z", "e", "n", " ", "5">>

CleanNamePool == {NameXeon, NameOverseas, NameUsed, NameRyzen, <<>>}

CleanRowPool == {ListingRow(<<"1", "0", "0">>, n, <<>>) : n \in CleanNamePool}

\* "k_hae k_oe" (overseas), "Used", and "e.i" with a character special in patterns
NeedlePool == {<<"k_hae", "k_oe">>, <<"U", "s", "e", "d">>, <<"e", ".", "i">>}

Letters == {UpperChars[i] : i \in 1..Len(UpperChars)}

\* xeon, [A-Z]\d
ReXeon == <<Lit("x", 0), Lit("e", 0), Lit("o", 0), Lit("n", 0)>>
ReLetterDigit == <<One(Letters, 0), One(Digits, 0)>>

RegexPool == {ReXeon, ReLetterDigit}

\* the rules of one part, with at most nc strings and nr patterns: either key may be absent
PartRulesPool(nc, nr) ==
    {[drop_if_name_contains |-> c, drop_if_name_regex |-> r] :
        c \in SeqsUpTo(NeedlePool, nc), r \in SeqsUpTo(RegexPool, nr)}
    \cup {[drop_if_name_contains |-> c] : c \in SeqsUpTo(NeedlePool, nc)}
    \cup {[drop_if_name_regex |-> r] : r \in SeqsUpTo(RegexPool, nr)}

CleanFresh ==
    /\ c_pc = "start"
    /\ c_part_i = 0
    /\ c_out = <<>>
    /\ parsed_dir = AllMissing

\* the CPU listing and the CPU rules drawn from the pools (a long listing with
\* few rules, or a short listing with many), the other parts with a listing
\* and no rules
InitCleanCpu ==
    /\ \E b \in {<<MaxCleanRows, 1, 1>>, <<1, MaxNeedles, MaxRegexes>>} :
          /\ \E f \in FilesOf(CleanRowPool, b[1]) :
                raw_info = [p \in PartSet |-> IF p = "CPU" THEN f ELSE File(<<PlainRow>>)]
          /\ \E r \in PartRulesPool(b[2], b[3]) : clean_rules = [CPU |-> r]
    /\ info_clean = AllMissing

\* no rules for CPU, rules for VGA, and a cleaned VGA listing left by an earlier run
InitCleanVga ==
    /\ \E f \in FilesOf(CleanRowPool, 1), g \in FilesOf(CleanRowPool, 1) :
          raw_info = [p \in PartSet |->
                         IF p = "CPU" THEN f ELSE IF p = "VGA" THEN g ELSE File(<<PlainRow>>)]
    /\ \E r \in {EmptyDict, [drop_if_name_contains |-> << <<"k_hae", "k_oe">> >>]} :
          clean_rules = [VGA |-> r]
    /\ \E old \in {NoFile, File(<<PlainRow>>)} :
          info_clean = [AllMissing EXCEPT !["VGA"] = old]

InitClean ==
    /\ CleanFresh
    /\ ApiIdle
    /\ CrawlersIdle
    /\ EnrichIdle
    /\ ParseIdle
    /\ \/ InitCleanCpu
       \/ InitCleanVga

SpecClean == InitClean /\ [][CleanNext]_vars

(***************************************************************************)
(* parser.py: GenericParser as a library. A caller constructs parser       *)
(* objects and calls parse on them; _compiled is one dict of the class,    *)
(* shared by all objects.                                                  *)
(***************************************************************************)
MaxCalls == 3       \* parse calls of the caller

\* what the caller of the library does not touch
a_inputs == <<files, e_vars, c_vars, r_vars, k_vars, yaml_cfg, cfg, p_pc, p_part_i, p_row_i, records>>

\* GenericParser(config_path) for the object p, lines 52-66: self.cfg is set,
\* the class attribute takes the name rules of the categories of this configuration
NewParser(p, config) ==
    /\ ~instances[p].built
    /\ instances' = [instances EXCEPT ![p] = [built |-> TRUE, cfg |-> config]]
    /\ compiled' = Update(compiled, CompileAll(config))
    /\ UNCHANGED <<a_inputs, calls>>

\* p.parse("CPU", row), lines 69-79: the result is returned, or the call raises
CallParse(p, row) ==
    /\ instances[p].built
    /\ Len(calls) < MaxCalls
    /\ calls' = Append(calls, [parser |-> p, cfg |-> instances[p].cfg, row |-> row,
                               result |-> Parse("CPU", row, instances[p].cfg, compiled)])
    /\ UNCHANGED <<a_inputs, instances, compiled>>

\* the configurations a caller constructs parsers from: model = group 1, model =
\* groups 1 and 2, and one without name rules for CPU
ApiConfigPool ==
    {ConfigWith(<<NameRule("model", ReModel, FALSE, <<1>>)>>, <<>>),
     ConfigWith(<<NameRule("model", ReModel, TRUE, <<1, 2>>)>>, <<>>),
     ConfigWith(<<>>, <<>>)}

ApiRowPool == {ListingRow(<<"1", "0", "0">>, NameIntel, <<>>), PlainRow}

ApiNext ==
    \/ \E p \in ParserIds, config \in ApiConfigPool : NewParser(p, config)
    \/ \E p \in ParserIds, row \in ApiRowPool : CallParse(p, row)

InitApi ==
    /\ ApiIdle
    /\ CrawlersIdle
    /\ EnrichIdle
    /\ CleanIdle
    /\ ParseIdle
    /\ raw_info = AllMissing
    /\ info_clean = AllMissing
    /\ parsed_dir = AllMissing

SpecApi == InitApi /\ [][ApiNext]_vars

(***************************************************************************)
(* Properties of the enrichment run                                        *)
(***************************************************************************)
\* the rows of a feed, none when the file is missing
RowsOf(file) == IF file.exists THEN file.data ELSE <<>>

\* the rows of the price feed that carry the id with a price that parses
PriceHits(feed, id) ==
    {j \in 1..Len(RowsOf(feed)) : RowsOf(feed)[j].ID = id /\ IsNumber(RowsOf(feed)[j].Price)}

\* C1: after the price/stock join every record is in stock iff the price feed of
\* its category has a row with its id and a price that parses as a number; the
\* price is then that parsed price, and otherwise the price is null (id missing,
\* price blank or non-numeric, feed file missing).
C1_PriceStockJoin ==
    pc = "bench" =>
        \A i \in 1..Len(products) :
            LET p    == products[i]
                feed == raw_price[Part]
                hits == PriceHits(feed, p.id)
            IN /\ p.in_stock = (hits # {})
               /\ hits # {} => \E j \in hits : p.price = Some(TruncVal(RowsOf(feed)[j].Price))
               /\ hits = {} => p.price = None

\* a record priced 0 and in stock beside a record whose only row has a blank price
C1_Witness ==
    /\ pc = "bench"
    /\ \E i, j \in 1..Len(products) :
          /\ products[i].in_stock /\ products[i].price = Some(0)
          /\ ~products[j].in_stock /\ products[j].price = None
          /\ \E r \in 1..Len(RowsOf(raw_price[Part])) :
                /\ RowsOf(raw_price[Part])[r].ID = products[j].id
                /\ RowsOf(raw_price[Part])[r].Price = <<>>

\* the metric keys and the feed of the part whose benchmarks are attached
BenchKeys == IF Part = "CPU" THEN CpuMetricKeys ELSE GpuMetricKeys

BenchCol(k) ==
    IF Part = "CPU" THEN CHOOSE c \in DOMAIN CPU_BENCH_COL_MAP : CPU_BENCH_COL_MAP[c] = k
    ELSE CHOOSE c \in DOMAIN GPU_BENCH_COL_MAP : GPU_BENCH_COL_MAP[c] = k

BenchFeed == IF Part = "CPU" THEN raw_cpu_bench ELSE raw_gpu_bench

\* the cell holds a number other than zero once its fraction is cut off
NonZeroCell(cell) == IsNumber(cell) /\ TruncVal(cell) # 0

\* C2: benchmark attachment (CPU or GPU) leaves no metric key with value 0 in a
\* record's spec: under every metric key the spec holds either what it held
\* before or the text of a nonzero value of a feed row; a 0, blank, "-" or
\* unparseable cell is never written and never replaces a value.
C2_NoZeroMetric ==
    [][(pc = "bench" /\ pc' = "save" /\ Part \in {"CPU", "VGA"}) =>
        \A i \in 1..Len(products) :
            LET before == SpecOf(products[i])
                after  == SpecOf(products'[i])
            IN \A k \in BenchKeys :
                  /\ k \in DOMAIN after =>
                        /\ after[k] # Str(<<"0">>)
                        /\ \/ k \in DOMAIN before /\ after[k] = before[k]
                           \/ \E r \in 1..Len(RowsOf(BenchFeed)) :
                                 LET row == RowsOf(BenchFeed)[r] IN
                                 /\ BenchCol(k) \in DOMAIN row.cells
                                 /\ NonZeroCell(row.cells[BenchCol(k)])
                                 /\ after[k] = Str(IntToStr(TruncVal(row.cells[BenchCol(k)])))
                  /\ k \in DOMAIN before => k \in DOMAIN after
       ]_vars

\* the CPU record "AMD R5" after the row "R5" was attached: the nonzero metric is
\* written, the metric with feed value 0 keeps the value it held, the blank one
\* stays absent
C2_Witness ==
    /\ pc = "save"
    /\ Part = "CPU"
    /\ \E i \in 1..Len(products) :
          /\ "cinebench_r23_single" \in DOMAIN products[i].spec
          /\ products[i].spec["cinebench_r23_single"] = Str(<<"1", "2">>)
          /\ products[i].spec["cinebench_r23_multi"] = Str(<<"7">>)
          /\ "geekbench6_single" \notin DOMAIN products[i].spec
    /\ \E r \in 1..Len(RowsOf(raw_cpu_bench)) :
          RowsOf(raw_cpu_bench)[r].cells["cb_r23_multi_col"] = <<"0">>

\* r is record s with spec.category set to cat and nothing else changed
TaggedAs(r, s, cat) ==
    /\ DOMAIN r = DOMAIN s \cup {"spec"}
    /\ \A f \in DOMAIN s \ {"spec"} : r[f] = s[f]
    /\ DOMAIN r.spec = DOMAIN SpecOf(s) \cup {"category"}
    /\ r.spec["category"] = Str(cat)
    /\ \A k \in DOMAIN SpecOf(s) \ {"category"} : r.spec[k] = SpecOf(s)[k]

\* C9: the merged file holds the records of SSD_final.json followed by those of
\* HDD_final.json, each sibling in its own order, every record tagged with
\* spec.category = the sibling's name (an earlier category overwritten); its
\* length is the sum of the lengths of the siblings that exist.
C9_Consolidation ==
    pc = "unlink_ssd" =>
        LET ssd == RowsOf(final_dir["SSD"])
            hdd == RowsOf(final_dir["HDD"])
            st  == final_dir["Storage"]
        IN /\ st.exists
           /\ Len(st.data) = Len(ssd) + Len(hdd)
           /\ \A i \in 1..Len(ssd) : TaggedAs(st.data[i], ssd[i], CatSSD)
           /\ \A i \in 1..Len(hdd) : TaggedAs(st.data[Len(ssd) + i], hdd[i], CatHDD)

\* two SSD records, one of them with an earlier category, and one HDD record
C9_Witness ==
    /\ pc = "unlink_ssd"
    /\ final_dir["SSD"].exists /\ Len(final_dir["SSD"].data) = 2
    /\ final_dir["HDD"].exists /\ Len(final_dir["HDD"].data) = 1
    /\ \E i \in 1..2 : "category" \in DOMAIN final_dir["SSD"].data[i].spec
    /\ Len(final_dir["Storage"].data) = 3

\* the run is at the consolidator and neither sibling file exists
NoSibling ==
    /\ pc = "part"
    /\ part_i > Len(PARTS)
    /\ ~final_dir["SSD"].exists
    /\ ~final_dir["HDD"].exists

\* C10: when neither SSD_final.json nor HDD_final.json exists the consolidator
\* returns without error and leaves the final directory as it is: no
\* Storage_final.json is created or rewritten and no file is deleted.
C10_SkipWhenNoSibling ==
    [][NoSibling => (final_dir' = final_dir /\ pc' = "done")]_vars

\* a run that skipped the consolidation, with the Storage file of an earlier run
\* still in place
C10_Witness ==
    /\ pc = "done"
    /\ Len(out) > 0
    /\ out[Len(out)] = <<"consolidation skipped", "Storage">>
    /\ final_dir["Storage"] = StaleStorage
    /\ ~final_dir["SSD"].exists /\ ~final_dir["HDD"].exists

\* the rows of the GPU feed that match a record's spec: the chipset name of the
\* row equals the record's chipset without regard to case, and the memory token
\* of the row, when its name carries one, equals the record's memory_capacity
GpuMatches(spec) ==
    {j \in 1..Len(RowsOf(raw_gpu_bench)) :
        GpuRowMatches(RowsOf(raw_gpu_bench)[j].name,
                      Lower(Strip(SpecText(spec, "chipset"))),
                      Strip(SpecText(spec, "memory_capacity")))}

\* the spec after holds, under every metric key of the part, the text of the
\* nonzero value of the feed row, or else what the spec before held; other keys
\* are as before
MetricsFromRow(before, after, row) ==
    /\ DOMAIN after \ BenchKeys = DOMAIN before \ BenchKeys
    /\ \A k \in DOMAIN before \ BenchKeys : after[k] = before[k]
    /\ \A k \in BenchKeys :
          LET cell == CellOf(row, BenchCol(k))
          IN IF NonZeroCell(cell)
             THEN k \in DOMAIN after /\ after[k] = Str(IntToStr(TruncVal(cell)))
             ELSE /\ (k \in DOMAIN after) = (k \in DOMAIN before)
                  /\ k \in DOMAIN before => after[k] = before[k]

\* C18: the GPU join gives a record the nonzero metrics of the first feed row, in
\* feed order, that matches it and of no other row, also when that row has no
\* nonzero metric or a later row matches too; a record no row matches keeps its
\* spec as it was.
C18_FirstGpuRowOnly ==
    [][(pc = "bench" /\ pc' = "save" /\ Part = "VGA") =>
        /\ Len(products') = Len(products)
        /\ \A i \in 1..Len(products) :
              LET before == SpecOf(products[i])
                  after  == SpecOf(products'[i])
                  hits   == GpuMatches(before)
              IN /\ \A f \in DOMAIN products[i] \ {"spec"} : products'[i][f] = products[i][f]
                 /\ IF hits = {} THEN after = before
                    ELSE LET first == CHOOSE j \in hits : \A h \in hits : j <= h
                         IN MetricsFromRow(before, after, RowsOf(raw_gpu_bench)[first])]_vars

\* the feed holds the row without a nonzero metric before a second row that
\* matches the record with chipset "RX 6" and 8GB, and the join left the record
\* without the metrics of the second row
C18_Witness ==
    /\ pc = "save"
    /\ Part = "VGA"
    /\ raw_gpu_bench.exists
    /\ Len(raw_gpu_bench.data) = 2
    /\ raw_gpu_bench.data[1] = BenchRowAllZero
    /\ Len(products) >= 1
    /\ Cardinality(GpuMatches([chipset |-> Str(<<"R", "X", " ", "6">>),
                               memory_capacity |-> Str(<<"8", "G", "B">>)])) = 2
    /\ products[1].id = 1
    /\ "spec" \in DOMAIN products[1]
    /\ DOMAIN products[1].spec \cap GpuMetricKeys = {}

\* the rows of the CPU feed whose normalized name is the normalized name given
CpuMatches(name) ==
    {j \in 1..Len(RowsOf(raw_cpu_bench)) : NormName(RowsOf(raw_cpu_bench)[j].name) = NormName(name)}

\* C19: the CPU join gives a record the nonzero metrics of a feed row, as text,
\* exactly when the record's name and the row's name are equal after the same
\* normalization (the words AMD, k_in k_tel, k_si k_ri k_jeu 2 removed, Core, Ryzen,
\* Ultra replaced by their Korean forms, every whitespace character removed); a
\* record no row matches is left as it was.
C19_CpuJoinByNormalizedName ==
    [][(pc = "bench" /\ pc' = "save" /\ Part = "CPU") =>
        /\ Len(products') = Len(products)
        /\ \A i \in 1..Len(products) :
              LET hits == CpuMatches(NameOf(products[i])) IN
              IF hits = {} THEN products'[i] = products[i]
              ELSE /\ \A f \in DOMAIN products[i] \ {"spec"} : products'[i][f] = products[i][f]
                   /\ \A j \in hits :
                         MetricsFromRow(SpecOf(products[i]), SpecOf(products'[i]),
                                        RowsOf(raw_cpu_bench)[j])]_vars

\* the record named "k_in k_tel Core i5" met the feed row "Core i5" and holds its
\* multi-core score 7.9 as "7", and not its single-core score 0.5; the record
\* before it met no row
C19_Witness ==
    /\ pc = "save"
    /\ Part = "CPU"
    /\ Len(products) = 2
    /\ CpuMatches(NameOf(products[1])) = {}
    /\ NameOf(products[2]) = <<"k_in", "k_tel", " ", "C", "o", "r", "e", " ", "i", "5">>
    /\ CpuMatches(NameOf(products[2])) # {}
    /\ "spec" \in DOMAIN products[2]
    /\ "cinebench_r23_multi" \in DOMAIN products[2].spec
    /\ products[2].spec["cinebench_r23_multi"] = Str(<<"7">>)
    /\ "cinebench_r23_single" \notin DOMAIN products[2].spec

\* the spec of a record, when it has one
HasSameSpecBut(before, after, keys) ==
    /\ DOMAIN SpecOf(after) \ keys = DOMAIN SpecOf(before) \ keys
    /\ \A k \in DOMAIN SpecOf(before) \ keys : SpecOf(after)[k] = SpecOf(before)[k]

\* the metric keys the benchmark attachment of part q may write
MetricKeysOf(q) ==
    IF q = "CPU" THEN CpuMetricKeys ELSE IF q = "VGA" THEN GpuMetricKeys ELSE {}

\* C29: the final file a part is saved to holds the records of its parsed file,
\* as many and in the same order, each with its id, name, image_url and
\* product_url and every other field but price and in_stock as parsed, and with
\* the spec as parsed but for the metric keys of its part (none for a part other
\* than CPU and VGA).
C29_EnrichmentFrame ==
    [][(pc = "save" /\ pc' = "part") =>
        LET before == parsed_dir[Part].data
            after  == final_dir'[Part].data
        IN /\ final_dir'[Part].exists
           /\ Len(after) = Len(before)
           /\ \A i \in 1..Len(before) :
                 /\ DOMAIN after[i] \ {"price", "in_stock", "spec"}
                       = DOMAIN before[i] \ {"price", "in_stock", "spec"}
                 /\ \A f \in DOMAIN before[i] \ {"price", "in_stock", "spec"} :
                       after[i][f] = before[i][f]
                 /\ HasSameSpecBut(before[i], after[i], MetricKeysOf(Part))]_vars

\* the final directory after the parts: a CPU file whose second record got a
\* metric from the feed and a price, beside a first record that got neither
C29_Witness ==
    /\ pc = "part"
    /\ part_i > 1
    /\ final_dir["CPU"].exists
    /\ parsed_dir["CPU"].exists
    /\ Len(final_dir["CPU"].data) = 2
    /\ final_dir["CPU"].data[1].id # final_dir["CPU"].data[2].id
    /\ SpecOf(final_dir["CPU"].data[2]) # SpecOf(parsed_dir["CPU"].data[2])
    /\ SpecOf(final_dir["CPU"].data[1]) = SpecOf(parsed_dir["CPU"].data[1])
    /\ \E i \in 1..2 : final_dir["CPU"].data[i].in_stock
    /\ \E i \in 1..2 : ~final_dir["CPU"].data[i].in_stock

\* C30: when a second run of enrich_products on the same parsed files, price
\* feeds and benchmark feeds is over, the final directory is as the first run
\* left it: the same files with the same contents.
C30_SecondRunSameFiles ==
    (runs = 1 /\ pc \in {"done", "raised"}) => final_dir = first_final

\* a second run that consolidated again: Storage_final.json holds the SSD and
\* HDD records once, and SSD_final.json and HDD_final.json are absent
C30_Witness ==
    /\ runs = 1
    /\ pc = "done"
    /\ \E k \in 1..Len(out) : out[k] = <<"created", "Storage">>
    /\ \E k \in 1..Len(out) : out[k] = <<"removed", "SSD">>
    /\ \E k \in 1..Len(out) : out[k] = <<"removed", "HDD">>
    /\ final_dir = first_final
    /\ final_dir["Storage"].exists
    /\ parsed_dir["SSD"].exists /\ parsed_dir["HDD"].exists
    /\ Len(parsed_dir["SSD"].data) >= 1 /\ Len(parsed_dir["HDD"].data) >= 1
    /\ Len(final_dir["Storage"].data) = Len(parsed_dir["SSD"].data) + Len(parsed_dir["HDD"].data)
    /\ ~final_dir["SSD"].exists /\ ~final_dir["HDD"].exists

\* the run is over and its consolidator wrote the merged file
Consolidated ==
    /\ pc = "done"
    /\ \E k \in 1..Len(out) : out[k] = <<"created", "Storage">>

\* every record of the sibling file is in the merged file, tagged with cat
HeldByStorage(dir, name, cat) ==
    /\ dir["Storage"].exists
    /\ \A i \in 1..Len(dir[name].data) :
          \E j \in 1..Len(dir["Storage"].data) :
             TaggedAs(dir["Storage"].data[j], dir[name].data[i], cat)

AfterPriceStage(part) ==
    UpdatePriceStock(parsed_dir[part].data, LoadPriceMap(raw_price[part]))

\* every record of recs went through the price stage and, for CPU and VGA,
\* through the benchmark stage
FullyEnriched(recs, part) ==
    /\ Len(recs) = Len(parsed_dir[part].data)
    /\ \A i \in 1..Len(recs) :
          /\ {"price", "in_stock"} \subseteq DOMAIN recs[i]
          /\ recs[i].price = AfterPriceStage(part)[i].price
          /\ recs[i].in_stock = AfterPriceStage(part)[i].in_stock
          /\ part = "CPU" => recs[i] = AttachCpuOne(AfterPriceStage(part)[i], cpu_bench_map)
          /\ part = "VGA" => /\ AttachGpuOne(AfterPriceStage(part)[i], gpu_bench_map).ok
                             /\ recs[i] = AttachGpuOne(AfterPriceStage(part)[i], gpu_bench_map).prod
          /\ part \notin {"CPU", "VGA"} => recs[i] = AfterPriceStage(part)[i]

\* C14: the final file of a category is written only by the save step, after
\* the price stage and the benchmark stage have gone over all its records, and
\* holds the fully enriched records; when a stage raises, the category has no
\* final file.
C14_StagesBeforeSave ==
    /\ [][\A q \in PartSet :
             (final_dir'[q] # final_dir[q] /\ final_dir'[q].exists) =>
                /\ pc = "save" /\ q = Part
                /\ FullyEnriched(final_dir'[q].data, q)]_vars
    /\ []((pc = "raised" /\ part_i <= Len(PARTS)) => ~final_dir[Part].exists)

\* the VGA join raised on a list-valued chipset after the price stage had gone
\* over the records: there is no VGA_final.json
C14_Witness ==
    /\ pc = "raised"
    /\ Part = "VGA"
    /\ Len(products) = 2
    /\ \A i \in 1..2 : "in_stock" \in DOMAIN products[i]
    /\ \E i \in 1..2 : products[i].in_stock
    /\ ~final_dir["VGA"].exists

(***************************************************************************)
(* Properties of the parser run                                            *)
(***************************************************************************)
\* the row record j was parsed from, its segments, and the rules of its category
RowOf(j) == info_clean[PPart].data[j]

SegsOf(j) == SplitSegments(Preprocess(RowOf(j).Spec))

SpecRules == GetOr(cfg[PPart], "spec", EmptyDict)

Pats == GetOr(SpecRules, "non_colon_patterns", <<>>)

ColonCfg == GetOr(SpecRules, "colon_keys", EmptyDict)

IsColonSeg(seg) == \E i \in 1..Len(seg) : seg[i] = ":"

\* the label of a colon-style segment: the trimmed text before its first colon
LabelOf(seg) ==
    LET c == CHOOSE i \in 1..Len(seg) : seg[i] = ":" /\ \A h \in 1..(i - 1) : seg[h] # ":"
    IN Strip(Slice(seg, 1, c - 1))

\* the text of a colon-style segment after its first colon
RawValueOf(seg) ==
    LET c == CHOOSE i \in 1..Len(seg) : seg[i] = ":" /\ \A h \in 1..(i - 1) : seg[h] # ":"
    IN Slice(seg, c + 1, Len(seg))

\* the writes of record j: <<n, 0>> for the colon-style segment n with a known
\* label, <<n, m>> for the positional segment n and the pattern m that matches it
Writes(j) ==
    {<<n, 0>> : n \in {i \in 1..Len(SegsOf(j)) :
                          IsColonSeg(SegsOf(j)[i]) /\ LabelOf(SegsOf(j)[i]) \in DOMAIN ColonCfg}}
    \cup {w \in (1..Len(SegsOf(j))) \X (1..Len(Pats)) :
             ~IsColonSeg(SegsOf(j)[w[1]]) /\ Matches(SegsOf(j)[w[1]], Pats[w[2]])}

WriteKey(j, w) ==
    IF w[2] = 0 THEN ColonCfg[LabelOf(SegsOf(j)[w[1]])] ELSE Pats[w[2]]["key"]

\* the value the write produces on its own
WriteValue(j, w) ==
    IF w[2] = 0 THEN ColonValue(Strip(RawValueOf(SegsOf(j)[w[1]])))
    ELSE ApplyPat(EmptyDict, SegsOf(j)[w[1]], Pats[w[2]])[Pats[w[2]]["key"]]

\* v comes before w in the segment sequence (and in pattern order within a segment)
SeqBefore(v, w) == v[1] < w[1] \/ (v[1] = w[1] /\ v[2] < w[2])

\* v comes before w when all colon-style segments are taken first
TwoPassBefore(v, w) ==
    \/ v[2] = 0 /\ w[2] # 0
    \/ (v[2] = 0) = (w[2] = 0) /\ SeqBefore(v, w)

WritesOf(j, k) == {w \in Writes(j) : WriteKey(j, w) = k}

WrittenKeys(j) == {WriteKey(j, w) : w \in Writes(j)}

\* the original statement of C3: the value of every key is the one written by
\* the write that comes last in the segment sequence
C3_SegmentOrderWins ==
    p_pc = "rows" =>
        \A j \in 1..Len(records) : \A k \in WrittenKeys(j) :
            /\ k \in DOMAIN records[j].spec
            /\ \E w \in WritesOf(j, k) :
                  /\ \A v \in WritesOf(j, k) : v = w \/ SeqBefore(v, w)
                  /\ records[j].spec[k] = WriteValue(j, w)

\* C3 (amended): the colon-style segments are processed first, in sequence
\* order, then the positional segments, in sequence order and pattern order:
\* between two segments of the same style the later one wins a key, and a
\* positional segment wins a key over a colon-style segment wherever it stands.
C3_TwoPassOrder ==
    p_pc = "rows" =>
        \A j \in 1..Len(records) : \A k \in WrittenKeys(j) :
            /\ k \in DOMAIN records[j].spec
            /\ \E w \in WritesOf(j, k) :
                  /\ \A v \in WritesOf(j, k) : v = w \/ TwoPassBefore(v, w)
                  /\ records[j].spec[k] = WriteValue(j, w)

\* "95W / TDP: 65W" with the pattern (tdp, endswith W): the positional segment
\* comes first and its value stays
C3_Witness ==
    /\ p_pc = "rows"
    /\ \E j \in 1..Len(records) :
          /\ \E v, w \in WritesOf(j, "tdp") : v[2] # 0 /\ w[2] = 0 /\ v[1] < w[1]
          /\ records[j].spec["tdp"] = Str(<<"9", "5", "W">>)

\* C4: on a positional segment every pattern whose predicate matches is applied,
\* in declared order: each matching pattern's key is written, and where the
\* segment is the last to write a key, the value is that of the last-declared
\* matching pattern with that key.
C4_AllMatchingPatterns ==
    p_pc = "rows" =>
        \A j \in 1..Len(records) : \A n \in 1..Len(SegsOf(j)) :
            ~IsColonSeg(SegsOf(j)[n]) =>
                \A m \in 1..Len(Pats) :
                    Matches(SegsOf(j)[n], Pats[m]) =>
                        /\ Pats[m]["key"] \in DOMAIN records[j].spec
                        /\ (/\ \A v \in WritesOf(j, Pats[m]["key"]) : v[2] # 0 => v[1] <= n
                            /\ \A h \in (m + 1)..Len(Pats) :
                                  ~(Matches(SegsOf(j)[n], Pats[h]) /\ Pats[h]["key"] = Pats[m]["key"]))
                           => records[j].spec[Pats[m]["key"]] = WriteValue(j, <<n, m>>)

\* "6C+12W / 3-4": two patterns with the key tdp match "6C+12W", the second
\* (split_on "+") gives the value; two patterns with different keys both write
C4_Witness ==
    /\ p_pc = "rows"
    /\ \E j \in 1..Len(records) :
          /\ {<<1, 1>>, <<1, 2>>} \subseteq WritesOf(j, "tdp")
          /\ WriteValue(j, <<1, 1>>) = Str(<<"6", "C", "+", "1", "2", "W">>)
          /\ records[j].spec["tdp"] = List(<< <<"6", "C">>, <<"1", "2", "W">> >>)

\* the pieces of text between commas, each trimmed
RECURSIVE CommaPieces(_)
CommaPieces(txt) ==
    IF \E i \in 1..Len(txt) : txt[i] = ","
    THEN LET c == CHOOSE i \in 1..Len(txt) : txt[i] = "," /\ \A h \in 1..(i - 1) : txt[h] # ","
         IN <<Strip(Slice(txt, 1, c - 1))>> \o CommaPieces(Slice(txt, c + 1, Len(txt)))
    ELSE <<Strip(txt)>>

\* C5: a colon-style segment is split at its first colon only; when its trimmed
\* label is a key of colon_keys and no later write replaces it, the canonical
\* key holds the list of trimmed comma-separated pieces when the value has a
\* comma, and the trimmed text of the value otherwise.
C5_ColonSplit ==
    p_pc = "rows" =>
        \A j \in 1..Len(records) : \A n \in 1..Len(SegsOf(j)) :
            LET seg == SegsOf(j)[n] IN
            (IsColonSeg(seg) /\ LabelOf(seg) \in DOMAIN ColonCfg)
            => /\ ColonCfg[LabelOf(seg)] \in DOMAIN records[j].spec
               /\ (\A v \in WritesOf(j, ColonCfg[LabelOf(seg)]) : v[2] = 0 /\ v[1] <= n)
                  => records[j].spec[ColonCfg[LabelOf(seg)]] =
                        IF \E i \in 1..Len(RawValueOf(seg)) : RawValueOf(seg)[i] = ","
                        THEN List(CommaPieces(RawValueOf(seg)))
                        ELSE Str(Strip(RawValueOf(seg)))

\* the segment "k_yong k_ryang: 256GB, 512GB" gives the list of its two pieces
C5_Witness ==
    /\ p_pc = "rows"
    /\ \E j \in 1..Len(records) :
          /\ \E n \in 1..Len(SegsOf(j)) :
                /\ IsColonSeg(SegsOf(j)[n])
                /\ LabelOf(SegsOf(j)[n]) \in DOMAIN ColonCfg
                /\ ColonCfg[LabelOf(SegsOf(j)[n])] = "capacity"
          /\ records[j].spec["capacity"] =
                List(<< <<"2", "5", "6", "G", "B">>, <<"5", "1", "2", "G", "B">> >>)

\* the name rules of the category, as the configuration declares them
NameRules == GetOr(cfg[PPart], "name_rules", <<>>)

MatchingRules(j) ==
    {m \in 1..Len(NameRules) : ReSearch(NameRules[m].regex, RowOf(j).Name).found}

\* the keys of record j that come from its name: not the fixed fields and not
\* a key the spec rules write
NameKeys(j) ==
    ((DOMAIN records[j] \cup DOMAIN records[j].spec)
        \ {"id", "image_url", "product_url", "spec"}) \ WrittenKeys(j)

ValueAt(j, k) == IF k \in DOMAIN records[j].spec THEN records[j].spec[k] ELSE records[j][k]

\* C6: the name rules are evaluated in declaration order: the keys a name
\* contributes are exactly the keys of the rules that match it, and each holds
\* the value of the last-declared matching rule with that key.
C6_NameRuleOrder ==
    p_pc = "rows" =>
        \A j \in 1..Len(records) :
            /\ NameKeys(j) = {NameRules[m].key : m \in MatchingRules(j)} \ WrittenKeys(j)
            /\ \A k \in NameKeys(j) :
                  \E m \in MatchingRules(j) :
                     /\ NameRules[m].key = k
                     /\ \A h \in MatchingRules(j) : NameRules[h].key = k => h <= m
                     /\ ValueAt(j, k) = Str(NameValue(NameRules[m], RowOf(j).Name))

\* two matching rules with the key model and different values, and a rule that
\* does not match: the second rule's value is in the record
C6_Witness ==
    /\ p_pc = "rows"
    /\ \E j \in 1..Len(records) :
          /\ MatchingRules(j) = {1, 2}
          /\ NameRules[1].key = "model" /\ NameRules[2].key = "model"
          /\ NameValue(NameRules[1], RowOf(j).Name) # NameValue(NameRules[2], RowOf(j).Name)
          /\ records[j].spec["model"] = Str(NameValue(NameRules[2], RowOf(j).Name))

\* the texts of the groups gs of match m, with one space between them
RECURSIVE SpaceJoined(_, _, _, _)
SpaceJoined(re, text, m, gs) ==
    IF Len(gs) = 0 THEN <<>>
    ELSE IF Len(gs) = 1 THEN Group(re, text, m, gs[1])
    ELSE Group(re, text, m, gs[1]) \o <<" ">> \o SpaceJoined(re, text, m, Tail(gs))

\* text has no blank at either end
Trimmed(text) == Len(text) = 0 \/ (text[1] \notin WS /\ text[Len(text)] \notin WS)

\* t is s without the blanks at its ends
IsTrimOf(t, s) ==
    /\ Trimmed(t)
    /\ \E a, b \in 0..Len(s) :
          /\ a + Len(t) + b = Len(s)
          /\ \A i \in 1..a : s[i] \in WS
          /\ \A i \in 1..b : s[Len(s) + 1 - i] \in WS
          /\ \A i \in 1..Len(t) : t[i] = s[a + i]

\* C7: the value of a matching name rule is the trimmed text of its capture
\* group when group is one index, and the texts of the listed groups, in the
\* listed order, joined by single spaces and then trimmed, when group is a list.
C7_GroupSelector ==
    p_pc = "rows" =>
        \A j \in 1..Len(records) : \A m \in MatchingRules(j) :
            (/\ NameRules[m].key \in NameKeys(j)
             /\ \A h \in MatchingRules(j) : NameRules[h].key = NameRules[m].key => h <= m)
            => LET rule == NameRules[m]
                   text == RowOf(j).Name
                   mt   == ReSearch(rule.regex, text)
               IN /\ ValueAt(j, rule.key).t = "str"
                  /\ IsTrimOf(ValueAt(j, rule.key).v, SpaceJoined(rule.regex, text, mt, rule.group.g))

\* group = [1, 2] on "k_in k_tel k_ko k_eo i5-14400F" gives "k_ko k_eo i5 14400F"
C7_Witness ==
    /\ p_pc = "rows"
    /\ \E j \in 1..Len(records) :
          /\ RowOf(j).Name = NameIntel
          /\ \E m \in MatchingRules(j) : NameRules[m].group = [list |-> TRUE, g |-> <<1, 2>>]
          /\ records[j].spec["model"] =
                Str(<<"k_ko", "k_eo", "i", "5", " ", "1", "4", "4", "0", "0", "F">>)

(***************************************************************************)
(* Properties of the cleaning run                                          *)
(***************************************************************************)
\* name has the text of s in it, case ignored
HasIgnoringCase(name, s) ==
    \E a \in 0..(Len(name) - Len(s)) :
        \A i \in 1..Len(s) : LowerChar(name[a + i]) = LowerChar(s[i])

\* the name meets a drop rule of the part: a listed string or a listed pattern
MeetsDropRule(name, rules) ==
    \/ \E k \in 1..Len(GetOr(rules, "drop_if_name_contains", <<>>)) :
          HasIgnoringCase(name, rules["drop_if_name_contains"][k])
    \/ \E k \in 1..Len(GetOr(rules, "drop_if_name_regex", <<>>)) :
          ReSearchI(rules["drop_if_name_regex"][k], name)

\* the rows of the listing that meet no drop rule, from i on, in order
RECURSIVE Retained(_, _, _)
Retained(rows, rules, i) ==
    IF i > Len(rows) THEN <<>>
    ELSE (IF MeetsDropRule(rows[i].Name, rules) THEN <<>> ELSE <<rows[i]>>)
         \o Retained(rows, rules, i + 1)

\* C8: when clean_csv has cleaned the listing of a part, the cleaned listing
\* holds exactly the rows whose name has no listed string in it (case ignored,
\* the string taken literally) and matches no listed pattern, unchanged and in
\* their order, and the count reported is the number of rows dropped.
C8_DropIffRuleMet ==
    \A i \in 1..Len(c_out) :
        c_out[i][1] = "removed" =>
            LET part  == CLEAN_PARTS[i]
                rows  == raw_info[part].data
                rules == clean_rules[part]
            IN /\ info_clean[part] = File(Retained(rows, rules, 1))
               /\ c_out[i][3] = Cardinality({k \in 1..Len(rows) : MeetsDropRule(rows[k].Name, rules)})

\* a listing of two rows: one with a listed string in its name and no pattern
\* matching it is dropped, the other is kept
C8_Witness ==
    /\ Len(c_out) >= 1
    /\ c_out[1] = <<"removed", "CPU", 1>>
    /\ LET rows == raw_info["CPU"].data rules == clean_rules["CPU"] IN
          /\ Len(rows) = 2
          /\ \E k \in 1..2 :
                /\ \E n \in 1..Len(GetOr(rules, "drop_if_name_contains", <<>>)) :
                      HasIgnoringCase(rows[k].Name, rules["drop_if_name_contains"][n])
                /\ \A n \in 1..Len(GetOr(rules, "drop_if_name_regex", <<>>)) :
                      ~ReSearchI(rules["drop_if_name_regex"][n], rows[k].Name)
                /\ info_clean["CPU"].data = <<rows[3 - k]>>

\* the parser run was given the listing and the rules of the end-to-end scenario
\* and is through with the row
ScenarioParsed ==
    /\ yaml_cfg = ScenarioConfig
    /\ info_clean["CPU"] = File(<<ScenarioRow>>)
    /\ p_part_i = 1
    /\ p_pc = "raised" \/ (p_pc = "rows" /\ p_row_i > 1)

\* C12, as stated: the scenario listing parses to a record with id 100, the name
\* of the listing, and the spec {model, socket, tdp} of the scenario.
C12_EndToEnd ==
    ScenarioParsed =>
        /\ p_pc = "rows"
        /\ Len(records) = 1
        /\ records[1].id = 100
        /\ "name" \in DOMAIN records[1]
        /\ records[1].name = Str(NameIntel)
        /\ records[1].spec =
              [model  |-> Str(<<"k_ko", "k_eo", "i", "5", "-", "1", "4", "4", "0", "0", "F">>),
               socket |-> Str(<<"L", "G", "A", "1", "7", "0", "0">>),
               tdp    |-> Str(<<"6", "5", "W">>)]

\* the pattern is in extract mode and its extract regex has no match in seg
ExtractMisses(seg, pat) ==
    /\ "extract_all" \notin DOMAIN pat
    /\ "extract" \in DOMAIN pat
    /\ ~ReSearch(pat["extract"], seg).found

\* C23, as stated: an extract pattern whose extract regex has no match in the
\* segment writes nothing, so a key of a record's spec that no name rule gave
\* was written by a colon-style segment or by a pattern other than such a one.
C23_ExtractMissWritesNothing ==
    p_pc = "rows" =>
        \A j \in 1..Len(records) : \A k \in DOMAIN records[j].spec \ NameKeys(j) :
            \E w \in WritesOf(j, k) :
                w[2] = 0 \/ ~ExtractMisses(SegsOf(j)[w[1]], Pats[w[2]])

\* the Spec text of row j after the replacements of lines 98-106, which is the
\* text the noise step receives
BeforeNoise(j) == ReplaceTable(RowOf(j).Spec, PREPROCESS_REPL, 1)

\* the text holds the noise marker and the idle/seek range
HasNoiseMarker(txt) == Contains(txt, NOISE_RANGE) /\ Contains(txt, NOISE_MARK)

\* a dB stands after the start of the marker
DecibelFollows(txt) == RFind(txt, DECIBEL) > Find(txt, NOISE_MARK)

\* C24, as stated: the noise step changes a text only when it holds the marker
\* and a dB after it, and then only by turning slashes into commas between the
\* start of the marker and the end of the dB; every other character, and the
\* whole text when no dB follows the marker, stays as it was.
C24_SpanLocal ==
    p_pc = "rows" =>
        \A j \in 1..Len(records) :
            LET txt == BeforeNoise(j)
                res == NoiseSpan(txt)
            IN /\ Len(res) = Len(txt)
               /\ \A i \in 1..Len(txt) :
                     res[i] # txt[i] =>
                        /\ HasNoiseMarker(txt) /\ DecibelFollows(txt)
                        /\ txt[i] = "/" /\ res[i] = ","
                        /\ i >= Find(txt, NOISE_MARK)
                        /\ i <= RFind(txt, DECIBEL) + 1

\* the text the segments of record j are cut from
SegmenterInput(j) == Preprocess(RowOf(j).Spec)

\* position i of txt lies in a closed bracketed annotation: a "[" stands at or
\* before i with no "]" between it and i, and a "]" stands at or after i
InAnnotation(txt, i) ==
    /\ \E a \in 1..i : txt[a] = "[" /\ \A h \in a..(i - 1) : txt[h] # "]"
    /\ \E b \in i..Len(txt) : txt[b] = "]" /\ (b > i \/ txt[i] # "[")

\* the characters of txt from position i on that are outside every annotation
\* and are neither whitespace nor "/"
RECURSIVE OuterChars(_, _)
OuterChars(txt, i) ==
    IF i > Len(txt) THEN <<>>
    ELSE (IF InAnnotation(txt, i) \/ txt[i] \in WS \/ txt[i] = "/" THEN <<>> ELSE <<txt[i]>>)
         \o OuterChars(txt, i + 1)

RECURSIVE ConcatAll(_)
ConcatAll(segs) == IF Len(segs) = 0 THEN <<>> ELSE segs[1] \o ConcatAll(Tail(segs))

OuterSlashes(txt) == {i \in 1..Len(txt) : txt[i] = "/" /\ ~InAnnotation(txt, i)}

\* C25: the segments of a text are not empty, carry no whitespace at either end
\* and no "/"; read one after the other they spell, whitespace aside, the text
\* outside its closed annotations without its "/", so they stand in the order
\* of the text and hold nothing of an annotation; and only a "/" outside the
\* annotations separates two segments.
C25_SegmentsWellFormed ==
    p_pc = "rows" =>
        \A j \in 1..Len(records) :
            LET txt  == SegmenterInput(j)
                segs == SegsOf(j)
            IN /\ \A n \in 1..Len(segs) :
                     /\ Len(segs[n]) > 0
                     /\ segs[n][1] \notin WS
                     /\ segs[n][Len(segs[n])] \notin WS
                     /\ \A i \in 1..Len(segs[n]) : segs[n][i] # "/"
               /\ DropWs(ConcatAll(segs)) = OuterChars(txt, 1)
               /\ Len(segs) <= Cardinality(OuterSlashes(txt)) + 1

\* "a [b/c] d / e" gave the segments "a   d" and "e", and the pattern that keeps
\* every segment left "e" in the record
C25_Witness ==
    /\ p_pc = "rows"
    /\ Len(records) >= 1
    /\ RowOf(1).Spec = <<"a", " ", "[", "b", "/", "c", "]", " ", "d", " ", "/", " ", "e">>
    /\ SegsOf(1) = << <<"a", " ", " ", " ", "d">>, <<"e">> >>
    /\ "seg" \in DOMAIN records[1].spec
    /\ records[1].spec["seg"] = Str(<<"e">>)

\* the keys the name rules that match the name of row j write
NameRuleKeys(j) == {NameRules[m].key : m \in MatchingRules(j)}

\* the segments of record j that contribute nothing: colon-style with a label
\* that is no colon key, or positional with no pattern that matches
IdleSegs(j) ==
    {n \in 1..Len(SegsOf(j)) :
        IF IsColonSeg(SegsOf(j)[n]) THEN LabelOf(SegsOf(j)[n]) \notin DOMAIN ColonCfg
        ELSE \A m \in 1..Len(Pats) : ~Matches(SegsOf(j)[n], Pats[m])}

\* C26: a colon-style segment whose label is no colon key, and a positional
\* segment no pattern matches, leave no trace in the record: every key of the
\* spec comes from a name rule or holds the value of a write of a colon-style
\* segment with a known label or of a pattern on a positional segment it
\* matches, and a record with no such write has no spec key beyond the name's.
C26_IdleSegmentsWriteNothing ==
    p_pc = "rows" =>
        \A j \in 1..Len(records) :
            /\ \A k \in DOMAIN records[j].spec :
                  \/ k \in NameRuleKeys(j)
                  \/ \E w \in WritesOf(j, k) :
                        /\ w[1] \notin IdleSegs(j)
                        /\ records[j].spec[k] = WriteValue(j, w)
            /\ Writes(j) = {} => DOMAIN records[j].spec \subseteq NameRuleKeys(j)

\* "y / x: 1" with the pattern that keeps every positional segment: the record
\* was produced, "x: 1" is idle and the key seg holds "y"
C26_Witness ==
    /\ p_pc = "rows"
    /\ Len(records) >= 1
    /\ RowOf(1).Spec = <<"y", " ", "/", " ", "x", ":", " ", "1">>
    /\ IdleSegs(1) = {2}
    /\ Len(Pats) = 1
    /\ DOMAIN records[1].spec = {"seg"}
    /\ records[1].spec["seg"] = Str(<<"y">>)

\* C27, as stated: every record carries at top level the id, name, image_url
\* and product_url of its listing row (the ID as an integer), and every other
\* key it holds is under spec.
C27_TopLevelFromListing ==
    p_pc = "rows" =>
        \A j \in 1..Len(records) :
            /\ DOMAIN records[j] = {"id", "name", "image_url", "product_url", "spec"}
            /\ records[j]["id"] = IntOfText(RowOf(j).ID)
            /\ records[j]["name"] = Str(RowOf(j).Name)
            /\ records[j]["image_url"] = Str(RowOf(j).ImageURL)
            /\ records[j]["product_url"] = Str(RowOf(j).ProductURL)

\* the non-overlapping matches of re in s from position from on, left to right:
\* the text of each match (whole), or what re.findall gives for it: the text of
\* the match for a regex without a group, the text of the group for a regex
\* with one group, the tuple of the groups for a regex with several
RECURSIVE MatchList(_, _, _, _)
MatchList(re, s, from, whole) ==
    LET m == SearchFrom(re, s, from) IN
    IF ~m.found \/ SumSeq(m.lens) = 0 THEN <<>>
    ELSE <<IF whole \/ NGroups(re) = 0 THEN Group(re, s, m, 0)
           ELSE IF NGroups(re) = 1 THEN Group(re, s, m, 1)
           ELSE [g \in 1..NGroups(re) |-> Group(re, s, m, g)]>>
         \o MatchList(re, s, m.start + SumSeq(m.lens), whole)

\* the modes of a pattern
ModesOf(pat) == DOMAIN pat \cap {"extract_all", "extract", "groups", "split_on"}

\* the pieces of seg between the occurrences of sep, each trimmed
RECURSIVE TrimmedPieces(_, _)
TrimmedPieces(seg, sep) ==
    IF Contains(seg, sep)
    THEN LET i == Find(seg, sep)
         IN <<Strip(Slice(seg, 1, i - 1))>> \o TrimmedPieces(Slice(seg, i + Len(sep), Len(seg)), sep)
    ELSE <<Strip(seg)>>

\* the pattern has at most one mode, other than extract, and in groups mode its
\* regex matches the segment
ModeApplies(seg, pat) ==
    /\ ModesOf(pat) \in {{}, {"extract_all"}, {"groups"}, {"split_on"}}
    /\ ModesOf(pat) = {"groups"} => ("regex" \in DOMAIN pat /\ ReSearch(pat["regex"], seg).found)

\* the value the mode of the pattern gives on the segment
ModeValue(seg, pat, whole) ==
    IF ModesOf(pat) = {"extract_all"} THEN List(MatchList(pat["extract_all"], seg, 1, whole))
    ELSE IF ModesOf(pat) = {"groups"}
    THEN LET m == ReSearch(pat["regex"], seg) IN
         IF Len(pat["groups"]) = 1 THEN Str(Group(pat["regex"], seg, m, pat["groups"][1]))
         ELSE List([n \in 1..Len(pat["groups"]) |-> Group(pat["regex"], seg, m, pat["groups"][n])])
    ELSE IF ModesOf(pat) = {"split_on"} THEN List(TrimmedPieces(seg, pat["split_on"]))
    ELSE Str(seg)

\* the positional writes of record j that no later positional write of the same
\* key follows, and whose pattern has a mode the claim describes
FinalModeWrites(j) ==
    {w \in Writes(j) :
        /\ w[2] # 0
        /\ ModeApplies(SegsOf(j)[w[1]], Pats[w[2]])
        /\ \A v \in WritesOf(j, WriteKey(j, w)) : v[2] = 0 \/ v = w \/ SeqBefore(v, w)}

NoCleaningRule ==
    /\ c_pc = "part"
    /\ c_part_i <= Len(CLEAN_PARTS)
    /\ (CPart \notin DOMAIN clean_rules \/ clean_rules[CPart] = EmptyDict)

\* C20: for a part without a cleaning rule (no entry, or an empty entry) whose
\* listing exists, run_clean writes a clean listing with the rows of the listing,
\* each unchanged and in the same order, touches no other file and goes on to
\* the next part.
C20_NoRuleCopies ==
    [][(NoCleaningRule /\ raw_info[CPart].exists) =>
        /\ info_clean'[CPart] = File(raw_info[CPart].data)
        /\ \A q \in DOMAIN info_clean \ {CPart} : info_clean'[q] = info_clean[q]
        /\ raw_info' = raw_info
        /\ c_pc' = "part"
        /\ c_part_i' = c_part_i + 1]_vars

\* a finished run that copied the listing of CPU, which has no entry, and the
\* listing of VGA, which has an empty entry
C20_Witness ==
    /\ c_pc = "done"
    /\ "CPU" \notin DOMAIN clean_rules
    /\ raw_info["CPU"].exists
    /\ Len(raw_info["CPU"].data) >= 1
    /\ info_clean["CPU"] = File(raw_info["CPU"].data)
    /\ "VGA" \in DOMAIN clean_rules
    /\ clean_rules["VGA"] = EmptyDict
    /\ raw_info["VGA"].exists
    /\ Len(raw_info["VGA"].data) >= 1
    /\ info_clean["VGA"] = File(raw_info["VGA"].data)
    /\ \E k \in 1..Len(c_out) : c_out[k] = <<"copied", "VGA", 0>>

\* C15, as stated for the parser run: when the listing of a part is missing the
\* part is skipped and the run goes on with the next part.
C15_MissingFileSkipped ==
    [][(p_pc = "open" /\ p_part_i <= Len(parts) /\ ~info_clean[PPart].exists)
        => (p_pc' = "open" /\ p_part_i' = p_part_i + 1)]_vars

NoEntry == p_part_i \in 1..Len(parts) /\ PPart \notin DOMAIN cfg

\* C17: a row of a part without an entry in the configuration makes parse raise
\* before any record of the part exists; the run ends there, with no parsed
\* file for that part nor for any later part.
C17_NoEntryFailsFast ==
    /\ [][(p_pc = "rows" /\ NoEntry /\ p_row_i <= Len(info_clean[PPart].data))
          => (p_pc' = "raised" /\ records' = <<>> /\ parsed_dir' = parsed_dir)]_vars
    /\ []((p_pc = "raised" /\ NoEntry /\ info_clean[PPart].exists)
          => /\ records = <<>>
             /\ p_row_i = 1
             /\ \A k \in p_part_i..Len(parts) : ~parsed_dir[parts[k]].exists)
    /\ [][p_pc # "raised"]_vars

\* the run ended at a later part without an entry, after the parts before it
\* were written
C17_Witness ==
    /\ p_pc = "raised"
    /\ NoEntry
    /\ p_part_i > 1
    /\ info_clean[PPart].exists
    /\ Len(info_clean[PPart].data) >= 1
    /\ parsed_dir["CPU"].exists
    /\ Len(parsed_dir["CPU"].data) >= 1

(***************************************************************************)
(* Properties of the parser as a library                                   *)
(***************************************************************************)
\* C13, as stated: two parse calls on parsers constructed from the same
\* configuration, with the same listing, return the same record, whatever was
\* constructed or parsed in between; and every call applies the rules of the
\* configuration its parser loaded.
C13_Deterministic ==
    /\ \A a, b \in 1..Len(calls) :
          (calls[a].cfg = calls[b].cfg /\ calls[a].row = calls[b].row)
          => calls[a].result = calls[b].result
    /\ \A a \in 1..Len(calls) :
          calls[a].result = Parse("CPU", calls[a].row, calls[a].cfg, CompileAll(calls[a].cfg))

(***************************************************************************)
(* benchmark_crawler.py: one category's crawl                              *)
(***************************************************************************)
MAX_TRIES == 3
\* backoff = 1.5, as a fraction; delays are in milliseconds
BACKOFF_NUM == 3
BACKOFF_DEN == 2
FIRST_DELAY == 1000

MaxItems == 2

\* delay *= backoff
NextDelay(d) == (d * BACKOFF_NUM) \div BACKOFF_DEN

\* What the site answers to the successive requests for one page:
\*   "page"         a response whose page parses
\*   "bad_page"     a response whose page makes the parsing raise
\*   "no_table"     a listing page without the table
\*   "request_exc"  scraper.get raises a RequestException
\*   "other_exc"    scraper.get raises another exception
\* Every list ends with an answer that ends the retry loop, or is longer than
\* MAX_TRIES.
ListingAnswers ==
    { <<"page">>, <<"request_exc", "page">>, <<"no_table">>, <<"other_exc">>,
      <<"request_exc", "request_exc", "request_exc", "page">> }

ItemAnswers ==
    { <<"page">>, <<"request_exc", "page">>, <<"request_exc", "request_exc", "page">>,
      <<"request_exc", "request_exc", "request_exc", "page">>,
      <<"other_exc">>, <<"request_exc", "other_exc">>, <<"bad_page">> }

\* the answers to the requests for page i (0: the listing)
AnswersOf(i) == IF i = 0 THEN b_net.listing ELSE b_net.items[i]

\* the number of requests made for page i
RequestsOf(i) == Len(SelectSeq(b_requests, LAMBDA p : p = i))

\* the answer to the request in flight
Answer == AnswersOf(b_idx)[b_attempt]

\* row = [cfg.name, comp_name] + metrics
BenchItemRow(i) == [name |-> i]

\* for idx, ... in enumerate(listing, 1): the loop goes to the next item, or ends
BenchAdvance(total) ==
    IF b_idx < total
      THEN /\ b_idx' = b_idx + 1
           /\ b_attempt' = 1
           /\ b_delay' = FIRST_DELAY
           /\ b_pc' = "fetch"
      ELSE /\ b_pc' = "write"
           /\ UNCHANGED <<b_idx, b_attempt, b_delay>>

b_inputs == <<files, e_vars, c_vars, p_vars, a_vars, r_vars, w_vars, b_net>>

\* _create_scraper, and the call of _fetch_listing enters the retry loop
BenchStart ==
    /\ b_pc = "start"
    /\ b_pc' = "fetch"
    /\ b_idx' = 0
    /\ b_attempt' = 1
    /\ b_delay' = FIRST_DELAY
    /\ UNCHANGED <<b_inputs, b_requests, b_sleeps, b_rows, b_log, b_file>>

\* return fn(*args, **kwargs): the listing, or the page of an item and its row
FetchOk ==
    /\ b_pc = "fetch"
    /\ Answer = "page"
    /\ b_requests' = Append(b_requests, b_idx)
    /\ b_rows' = IF b_idx = 0 THEN b_rows ELSE Append(b_rows, BenchItemRow(b_idx))
    /\ BenchAdvance(Len(b_net.items))
    /\ UNCHANGED <<b_inputs, b_sleeps, b_log, b_file>>

\* the listing page has no table: a warning, and an empty listing
ListingEmpty ==
    /\ b_pc = "fetch"
    /\ b_idx = 0
    /\ Answer = "no_table"
    /\ b_requests' = Append(b_requests, b_idx)
    /\ b_log' = Append(b_log, [level |-> "warning", page |-> 0, delay |-> 0])
    /\ BenchAdvance(0)
    /\ UNCHANGED <<b_inputs, b_sleeps, b_rows, b_file>>

\* except RequestException, attempt < max_tries: warning, sleep, delay *= backoff
FetchRetry ==
    /\ b_pc = "fetch"
    /\ Answer = "request_exc"
    /\ b_attempt # MAX_TRIES
    /\ b_requests' = Append(b_requests, b_idx)
    /\ b_log' = Append(b_log, [level |-> "warning", page |-> b_idx, delay |-> b_delay])
    /\ b_sleeps' = Append(b_sleeps, [page |-> b_idx, delay |-> b_delay])
    /\ b_delay' = NextDelay(b_delay)
    /\ b_attempt' = b_attempt + 1
    /\ UNCHANGED <<b_inputs, b_pc, b_idx, b_rows, b_file>>

\* the variant that lets the exception leave the category's crawl
FetchRaise_Aborts ==
    /\ b_pc = "fetch"
    /\ \/ Answer = "request_exc" /\ b_attempt = MAX_TRIES
       \/ Answer = "other_exc"
    /\ b_requests' = Append(b_requests, b_idx)
    /\ b_pc' = "raised"
    /\ UNCHANGED <<b_inputs, b_idx, b_attempt, b_delay, b_log, b_sleeps, b_rows, b_file>>

\* the request raises out of the retry loop: a RequestException at the last
\* attempt, or another exception at any attempt.  For an item the loop's except
\* logs it and goes on; for the listing nothing catches it.
FetchRaise ==
    /\ b_pc = "fetch"
    /\ \/ Answer = "request_exc" /\ b_attempt = MAX_TRIES
       \/ Answer = "other_exc"
    /\ b_requests' = Append(b_requests, b_idx)
    /\ IF b_idx = 0
         THEN /\ b_pc' = "raised"
              /\ UNCHANGED <<b_idx, b_attempt, b_delay, b_log>>
         ELSE /\ b_log' = Append(b_log, [level |-> "error", page |-> b_idx, delay |-> 0])
              /\ BenchAdvance(Len(b_net.items))
    /\ UNCHANGED <<b_inputs, b_sleeps, b_rows, b_file>>

\* the page came, and _parse_metrics or _parse_fps_table raises on it
ParseRaises ==
    /\ b_pc = "fetch"
    /\ b_idx > 0
    /\ Answer = "bad_page"
    /\ b_requests' = Append(b_requests, b_idx)
    /\ b_log' = Append(b_log, [level |-> "error", page |-> b_idx, delay |-> 0])
    /\ BenchAdvance(Len(b_net.items))
    /\ UNCHANGED <<b_inputs, b_sleeps, b_rows, b_file>>

\* self._write_csv(out_path, cfg.csv_columns, rows)
BenchWrite ==
    /\ b_pc = "write"
    /\ b_file' = File(b_rows)
    /\ b_pc' = "done"
    /\ UNCHANGED <<b_inputs, b_idx, b_attempt, b_delay, b_requests, b_sleeps, b_rows, b_log>>

BenchNext ==
    \/ BenchStart
    \/ FetchOk
    \/ ListingEmpty
    \/ FetchRetry
    \/ FetchRaise
    \/ ParseRaises
    \/ BenchWrite

BenchFresh ==
    /\ b_pc = "start"
    /\ b_idx = 0
    /\ b_attempt = 0
    /\ b_delay = 0
    /\ b_requests = <<>>
    /\ b_sleeps = <<>>
    /\ b_rows = <<>>
    /\ b_log = <<>>
    /\ b_file \in {NoFile, File(<<BenchItemRow(1)>>)}

InitBench ==
    /\ BenchFresh
    /\ PoolIdle
    /\ ApiIdle
    /\ EnrichIdle
    /\ CleanIdle
    /\ ParseIdle
    /\ raw_info = AllMissing
    /\ info_clean = AllMissing
    /\ parsed_dir = AllMissing
    /\ b_net \in [listing : ListingAnswers, items : SeqsUpTo(ItemAnswers, MaxItems)]

SpecBench == InitBench /\ [][BenchNext]_vars

(***************************************************************************)
(* Properties of the benchmark crawler                                     *)
(***************************************************************************)
BenchItems == 1..Len(b_net.items)

\* the delays of the retry sleeps made for page i, in order
SleepsOf(i) ==
    LET own == SelectSeq(b_sleeps, LAMBDA sl : sl.page = i)
    IN  [k \in 1..Len(own) |-> own[k].delay]

\* within max_tries requests the site answers item i with a page that parses
Succeeds(i) ==
    \E k \in 1..MAX_TRIES :
        /\ k <= Len(b_net.items[i])
        /\ b_net.items[i][k] = "page"
        /\ \A j \in 1..(k - 1) : b_net.items[i][j] = "request_exc"

\* every one of the max_tries requests for item i fails
Exhausts(i) ==
    /\ Len(b_net.items[i]) >= MAX_TRIES
    /\ \A k \in 1..MAX_TRIES : b_net.items[i][k] = "request_exc"

\* the rows of the items that succeed, in the order of the listing
RECURSIVE RowsUpTo(_)
RowsUpTo(n) ==
    IF n = 0 THEN <<>>
    ELSE IF Succeeds(n) THEN Append(RowsUpTo(n - 1), BenchItemRow(n))
    ELSE RowsUpTo(n - 1)

ErrorsOf(i) == Len(SelectSeq(b_log, LAMBDA e : e.level = "error" /\ e.page = i))

\* C21: the page of one item is requested at most max_tries (3) times; the
\* sleeps between its attempts start at one second and each is the one before
\* times the backoff factor (1.5); every attempt before the last one made failed
\* with a request error, so an answer ends the attempts at once; no item's
\* failure ends the category's crawl; and when the crawl is over the output file
\* holds exactly the rows of the items that succeeded, in order, while every
\* other item was logged as an error once.
C21_RetryThenSkip ==
    b_pc # "idle" =>
        /\ \A i \in BenchItems :
              /\ RequestsOf(i) <= MAX_TRIES
              /\ \A k \in 1..(RequestsOf(i) - 1) : b_net.items[i][k] = "request_exc"
              /\ LET sl == SleepsOf(i)
                 IN  /\ Len(sl) <= RequestsOf(i)
                     /\ Len(sl) >= RequestsOf(i) - 1
                     /\ Len(sl) >= 1 => sl[1] = 1000
                     /\ \A k \in 2..Len(sl) : 2 * sl[k] = 3 * sl[k - 1]
        /\ b_pc = "raised" => b_idx = 0
        /\ b_pc = "done" =>
              /\ b_file = File(b_rows)
              /\ RequestsOf(0) >= 1
              /\ b_net.listing[RequestsOf(0)] = "page" =>
                    /\ b_rows = RowsUpTo(Len(b_net.items))
                    /\ \A i \in BenchItems :
                          /\ ErrorsOf(i) = (IF Succeeds(i) THEN 0 ELSE 1)
                          /\ RequestsOf(i) >= 1

\* a crawl ended with its file written although an earlier item used up its
\* three attempts, and a later item came through at its second or third attempt
C21_Witness ==
    /\ b_pc = "done"
    /\ b_file.exists
    /\ Len(b_net.items) >= 2
    /\ Exhausts(1)
    /\ RequestsOf(1) = MAX_TRIES
    /\ SleepsOf(1) = <<1000, 1500>>
    /\ Succeeds(2)
    /\ RequestsOf(2) >= 2
    /\ b_file.data = <<BenchItemRow(2)>>

(***************************************************************************)
(* parts_info_crawler.py, price_crawler.py: the pool and one crawl per     *)
(* category                                                                *)
(***************************************************************************)
\* the steps inside the try of crawl(): driver.get and the tab, the checkboxes
\* (and the page size), the collection, the save
CRAWL_STEPS == <<"nav", "filter", "collect", "save">>
CrawlStepSet == {CRAWL_STEPS[i] : i \in 1..Len(CRAWL_STEPS)}

\* what can go wrong for one category: nothing, the launch of the browser in the
\* constructor, or one of the steps
FaultSet == {"none", "launch"} \cup CrawlStepSet

StepAfter(st) ==
    CASE st = "nav" -> "filter"
      [] st = "filter" -> "collect"
      [] st = "collect" -> "save"
      [] OTHER -> "finally"

w_inputs == <<files, e_vars, c_vars, p_vars, a_vars, r_vars, b_vars, w_fault>>

\* a pool process takes the next category: _worker, the constructor starts the
\* browser, crawl() enters its try
WorkerLaunch(p) ==
    /\ w_proc[p] = "idle"
    /\ w_queue # <<>>
    /\ LET c == Head(w_queue)
       IN  /\ w_fault[c] # "launch"
           /\ w_proc' = [w_proc EXCEPT ![p] = c]
           /\ w_session' = [w_session EXCEPT ![c] = "open"]
           /\ w_pc' = [w_pc EXCEPT ![c] = "nav"]
    /\ w_queue' = Tail(w_queue)
    /\ UNCHANGED <<w_inputs, w_quits, w_csv, w_out>>

\* the constructor raises: no browser, the exception leaves _worker and the
\* pool keeps it for the caller of map; the process is free for the next task
WorkerLaunchFails(p) ==
    /\ w_proc[p] = "idle"
    /\ w_queue # <<>>
    /\ LET c == Head(w_queue)
       IN  /\ w_fault[c] = "launch"
           /\ w_pc' = [w_pc EXCEPT ![c] = "raised"]
    /\ w_queue' = Tail(w_queue)
    /\ UNCHANGED <<w_inputs, w_proc, w_session, w_quits, w_csv, w_out>>

\* one step of the try block goes through; the save writes the file and the
\* crawl prints its end
StepOk(p) ==
    /\ w_proc[p] # "idle"
    /\ LET c == w_proc[p]
       IN  /\ w_pc[c] \in CrawlStepSet
           /\ w_fault[c] # w_pc[c]
           /\ w_pc' = [w_pc EXCEPT ![c] = StepAfter(w_pc[c])]
           /\ w_csv' = [w_csv EXCEPT ![c] = @ \/ w_pc[c] = "save"]
           /\ w_out' = IF w_pc[c] = "save"
                         THEN Append(w_out, [category |-> c, msg |-> "done"])
                         ELSE w_out
    /\ UNCHANGED <<w_inputs, w_queue, w_proc, w_session, w_quits>>

\* the variant without the try: the exception leaves crawl() and _worker
StepFails_Propagates(p) ==
    /\ w_proc[p] # "idle"
    /\ LET c == w_proc[p]
       IN  /\ w_pc[c] \in CrawlStepSet
           /\ w_fault[c] = w_pc[c]
           /\ w_pc' = [w_pc EXCEPT ![c] = "raised"]
    /\ w_proc' = [w_proc EXCEPT ![p] = "idle"]
    /\ UNCHANGED <<w_inputs, w_queue, w_session, w_quits, w_csv, w_out>>

\* one step of the try block raises: except Exception prints the failure
StepFails(p) ==
    /\ w_proc[p] # "idle"
    /\ LET c == w_proc[p]
       IN  /\ w_pc[c] \in CrawlStepSet
           /\ w_fault[c] = w_pc[c]
           /\ w_pc' = [w_pc EXCEPT ![c] = "finally"]
           /\ w_out' = Append(w_out, [category |-> c, msg |-> "failed"])
    /\ UNCHANGED <<w_inputs, w_queue, w_proc, w_session, w_quits, w_csv>>

\* finally: self.driver.quit(); crawl() and _worker return
WorkerQuit(p) ==
    /\ w_proc[p] # "idle"
    /\ LET c == w_proc[p]
       IN  /\ w_pc[c] = "finally"
           /\ w_quits' = [w_quits EXCEPT ![c] = @ + 1]
           /\ w_session' = [w_session EXCEPT ![c] = "quit"]
           /\ w_pc' = [w_pc EXCEPT ![c] = "done"]
    /\ w_proc' = [w_proc EXCEPT ![p] = "idle"]
    /\ UNCHANGED <<w_inputs, w_queue, w_csv, w_out>>

PoolNext ==
    \/ \E p \in PoolProcs : WorkerLaunch(p)
    \/ \E p \in PoolProcs : WorkerLaunchFails(p)
    \/ \E p \in PoolProcs : StepOk(p)
    \/ \E p \in PoolProcs : StepFails(p)
    \/ \E p \in PoolProcs : WorkerQuit(p)

\* pool.map(_worker, CATEGORIES) has queued one task per category
InitPool ==
    /\ w_fault \in [CategorySet -> FaultSet]
    /\ w_queue = CATEGORIES
    /\ w_proc = [p \in PoolProcs |-> "idle"]
    /\ w_pc = [c \in CategorySet |-> "queued"]
    /\ w_session = [c \in CategorySet |-> "none"]
    /\ w_quits = [c \in CategorySet |-> 0]
    /\ w_csv = [c \in CategorySet |-> FALSE]
    /\ w_out = <<>>
    /\ BenchIdle
    /\ ApiIdle
    /\ EnrichIdle
    /\ CleanIdle
    /\ ParseIdle
    /\ raw_info = AllMissing
    /\ info_clean = AllMissing
    /\ parsed_dir = AllMissing

\* every pool process that can take a step is scheduled in the end: the
\* operating system runs each process, and every wait on the browser has a
\* timeout
SpecPool ==
    /\ InitPool
    /\ [][PoolNext]_vars
    /\ \A p \in PoolProcs :
          WF_vars(WorkerLaunch(p) \/ WorkerLaunchFails(p) \/ StepOk(p) \/ StepFails(p) \/ WorkerQuit(p))

(***************************************************************************)
(* Properties of the pool                                                  *)
(***************************************************************************)
\* the browser of category c was started
Launched(c) == w_pc[c] \in CrawlStepSet \cup {"finally", "done"}

C22_Safe ==
    \A c \in CategorySet :
        /\ w_quits[c] <= 1
        /\ w_pc[c] = "raised" => w_fault[c] = "launch" /\ w_session[c] = "none"
        /\ w_session[c] = "open" <=> (Launched(c) /\ w_pc[c] # "done")
        /\ w_pc[c] = "done" =>
              /\ w_quits[c] = 1
              /\ w_session[c] = "quit"
              /\ w_csv[c] = (w_fault[c] = "none")
        /\ w_pc[c] # "done" => w_quits[c] = 0
        /\ w_csv[c] => w_fault[c] = "none"

====
